---- MODULE Spec2Model ----
(***************************************************************************)
(* Model of the apiIPCA service: the IPCA loader with its circuit breaker  *)
(* and file cache (app/utils/carregar_ipca.py, app/utils/ipca_cache.py),   *)
(* the rate limiter (app/middlewares/rate_limit.py) and the transparency   *)
(* streaming pipeline (app/utils/data_loader.py,                           *)
(* app/services/transparencia_service.py).                                 *)
(*                                                                         *)
(* Time is a single clock `now`, in seconds.  Second 0 is 2024-01-01 00:00.*)
(***************************************************************************)
EXTENDS Integers, Sequences, FiniteSets, TLC

VARIABLES
    now,        \* datetime.now(), seconds since 2024-01-01 00:00
    t0,         \* the instant the process started (bounds the run)
    cb,         \* circuit_breaker: [state, failures, last_failure_time]
    cache,      \* the cache file: NoFile, Corrupt or a document
    ld,         \* the load() call in progress / last finished
    rl,         \* rate_limiter: requests, _initialized, sweep wake-up time
    rlLog,      \* history of check_rate_limit decisions
    orq,        \* the consultar_transparencia_streaming generator
    svc,        \* TransparenciaService.consultar_dados_streaming generator
    cor,        \* one call of processar_correcao_dados: its arguments and result
    cc,         \* cache_lock and the threads calling the cache operations
    op,         \* one call of a cache operation: its arguments, the file before it, its result
    ipca_service,\* the IPCA service: its loaded series and one call of an operation
    hc,         \* GET /health: the outcomes of its dependencies and its last response
    resultado_final,\* carregar_dados_portal_transparencia: where the call is and what it returned
    rota,           \* POST /transparencia/consultar-streaming: the response generator and its disconnect watcher
    email_service\* the EmailService singleton and its last call

vars == <<now, t0, cb, cache, ld, rl, rlLog, orq, svc, cor, cc, op, ipca_service, hc, resultado_final, rota, email_service>>

None == -1

----------------------------------------------------------------------------
(* Bounds of the model *)

\* seconds of run time explored after process start
MaxRun == 610
\* amounts of idle time (seconds) that may pass between two operations
TickSteps == {148, 150}
\* number of load() / force refresh calls explored in one run
MaxLoads == 3
\* the limiter is built with this requests_per_minute (RateLimiter(n))
requests_per_minute == 2
\* number of gated requests explored in one run
MaxRequests == 5
MaxRegistros == 3
NumThreads == 2
\* seconds explored by the limiter runs, and the idle steps between requests
MaxRunLimiter == 120
LimiterTickSteps == {59, 60}
\* idle time between two steps when the sweep task is followed
SweepTickSteps == {30}

----------------------------------------------------------------------------
(* Calendar: datetime fields of an instant, for the year 2024 *)

SecondsPerDay == 86400

MonthLen == <<31, 29, 31, 30, 31, 30, 31, 31, 30, 31, 30, 31>>

RECURSIVE MonthOfDay(_, _)
\* dayOfYear is 0-based; returns <<month, day-of-month>>, 1-based
MonthOfDay(dayOfYear, m) ==
    IF m >= 12 \/ dayOfYear < MonthLen[m]
    THEN <<m, dayOfYear + 1>>
    ELSE MonthOfDay(dayOfYear - MonthLen[m], m + 1)

\* the year, month and day fields of datetime t (t >= 0, within 2024)
DateOf(t) ==
    LET md == MonthOfDay(t \div SecondsPerDay, 1)
    IN  [year |-> 2024, month |-> md[1], day |-> md[2]]

\* timedelta.days of (a - b): floor division of the difference
DaysBetween(a, b) == (a - b) \div SecondsPerDay

----------------------------------------------------------------------------
(* Circuit breaker, app/utils/carregar_ipca.py *)

max_failures == 3
timeout_seconds == 300

CircuitBreakerInit == [state |-> "CLOSED", failures |-> 0, last_failure_time |-> None]

is_open_mut(b, t) ==
    IF b.state = "OPEN"
    THEN IF b.last_failure_time # None /\ t - b.last_failure_time < timeout_seconds
         THEN [ret |-> FALSE, cb |-> [b EXCEPT !.state = "HALF_OPEN"]]
         ELSE [ret |-> TRUE, cb |-> b]
    ELSE [ret |-> FALSE, cb |-> b]

\* is_open(): returns the answer and the (possibly changed) breaker
is_open(b, t) ==
    IF b.state = "OPEN"
    THEN IF b.last_failure_time # None /\ t - b.last_failure_time >= timeout_seconds
         THEN [ret |-> FALSE, cb |-> [b EXCEPT !.state = "HALF_OPEN"]]
         ELSE [ret |-> TRUE, cb |-> b]
    ELSE [ret |-> FALSE, cb |-> b]

record_success_mut(b) ==
    [state |-> IF b.state = "OPEN" THEN "OPEN" ELSE "CLOSED",
     failures |-> 0, last_failure_time |-> None]

record_success(b) ==
    [state |-> "CLOSED", failures |-> 0, last_failure_time |-> None]

record_failure_mut(b, t) ==
    LET f == b.failures + 1
    IN  [state |-> IF f > max_failures THEN "OPEN" ELSE b.state,
         failures |-> f, last_failure_time |-> t]

record_failure(b, t) ==
    LET f == b.failures + 1
    IN  [state |-> IF f >= max_failures THEN "OPEN" ELSE b.state,
         failures |-> f, last_failure_time |-> t]

\* get_status()['state']
get_status_state(b) == b.state

----------------------------------------------------------------------------
(* IPCA file cache, app/utils/ipca_cache.py *)

\* A series is a set of <<period, value>> pairs; {} is the empty dict.
SerieA == {<<"01/2024", 100>>}
SerieB == {<<"01/2024", 100>>, <<"02/2024", 101>>}
Series == {SerieA, SerieB}

NoFile == [kind |-> "nofile"]
Corrupt == [kind |-> "corrupt"]
BadDate == -2

Doc(dados, info, ultima) ==
    [kind |-> "doc", dados |-> dados, info |-> info, ultima_atualizacao |-> ultima]

\* carregar_cache(): the parsed document, or None (here: NoFile) when the
\* file is missing or cannot be decoded
carregar_cache(c) == IF c.kind = "doc" THEN c ELSE NoFile

\* `cache_data and cache_data.get("dados")`
TemDados(c) == carregar_cache(c).kind = "doc" /\ carregar_cache(c).dados # {}

salvar_cache_mut(c, dados, info, forcar, t) ==
    IF dados = {} THEN [ok |-> FALSE, cache |-> c]
    ELSE IF carregar_cache(c).kind = "doc" /\ carregar_cache(c).dados = dados
         THEN [ok |-> TRUE, cache |-> c]
         ELSE [ok |-> TRUE, cache |-> Doc(dados, info, t)]

\* salvar_cache(ipca_dict, info, forcar): the returned flag and the file
salvar_cache(c, dados, info, forcar, t) ==
    IF dados = {} THEN [ok |-> FALSE, cache |-> c]
    ELSE IF ~forcar /\ carregar_cache(c).kind = "doc" /\ carregar_cache(c).dados = dados
         THEN [ok |-> TRUE, cache |-> c]
         ELSE [ok |-> TRUE, cache |-> Doc(dados, info, t)]

verificar_atualizacao_necessaria_mut(c, t) ==
    LET d == carregar_cache(c) IN
    IF d.kind # "doc" THEN TRUE
    ELSE IF d.dados = {} THEN TRUE
    ELSE IF d.ultima_atualizacao = BadDate THEN TRUE
    ELSE IF DaysBetween(t, d.ultima_atualizacao) >= 30 THEN TRUE
    ELSE IF DateOf(t).day <= 5
            /\ (DateOf(d.ultima_atualizacao).month # DateOf(t).month
                \/ DateOf(d.ultima_atualizacao).year # DateOf(t).year)
         THEN TRUE
    ELSE FALSE

\* verificar_atualizacao_necessaria(): the boolean of the returned pair
verificar_atualizacao_necessaria(c, t) ==
    LET d == carregar_cache(c) IN
    IF d.kind # "doc" THEN TRUE
    ELSE IF d.dados = {} THEN TRUE
    ELSE IF d.ultima_atualizacao = BadDate THEN TRUE
    ELSE IF DaysBetween(t, d.ultima_atualizacao) > 30 THEN TRUE
    ELSE IF DateOf(t).day <= 5
            /\ (DateOf(d.ultima_atualizacao).month # DateOf(t).month
                \/ DateOf(d.ultima_atualizacao).year # DateOf(t).year)
         THEN TRUE
    ELSE FALSE

\* limpar_cache(): the file after the call
limpar_cache(c) == NoFile

----------------------------------------------------------------------------
(* IPCA loader, app/utils/carregar_ipca.py *)

MAX_TENTATIVAS == 3
INTERVALO_RETRY == 2

\* what one ip.timeseries() call can do: raise, or return a series
\* (possibly an empty one)
ProviderSeries == {[ok |-> TRUE, serie |-> s] : s \in Series \cup {{}}}
ProviderFail == [ok |-> FALSE, serie |-> {}]
ProviderOutcomes == {ProviderFail} \cup ProviderSeries

InfoApi == "Dados do IPCA carregados da API IPEA"
InfoErro == "Erro ao carregar IPCA apos 3 tentativas"
InfoCacheFile == "info do cache"

\* an info message: its text, the breaker state it names ("" if none) and
\* whether "[Cache atualizado]" is appended
Msg(txt, estado, atualizado) == [txt |-> txt, estado |-> estado, atualizado |-> atualizado]

Result(dados, src, msg) == [dados |-> dados, src |-> src, msg |-> msg]

LoadIdle ==
    [pc |-> "idle", kind |-> "none", force |-> FALSE, tentativa |-> 0,
     calls |-> 0, sleeps |-> 0, fails |-> 0, succs |-> 0, n |-> 0,
     desde |-> "", api |-> Result({}, "none", Msg("", "", FALSE)),
     result |-> Result({}, "none", Msg("", "", FALSE))]

UsaCacheAtualizado_mut(c, force, t) ==
    ~force /\ TemDados(c) /\ verificar_atualizacao_necessaria(c, t)

\* step 1 of carregar_dados_ipca_com_retry: is the call answered from the
\* cache without looking at the breaker?
UsaCacheAtualizado(c, force, t) ==
    ~force /\ TemDados(c) /\ ~verificar_atualizacao_necessaria(c, t)

\* step 2: the result returned when is_open() answered True
ResultadoBloqueado(c, b) ==
    IF TemDados(c)
    THEN Result(carregar_cache(c).dados, "cb_cache", Msg("Cache desatualizado (Circuit Breaker ativo)", "", FALSE))
    ELSE Result({}, "cb_error", Msg("Servico IPCA temporariamente indisponivel. Circuit Breaker:", get_status_state(b), FALSE))

AposApi_mut(c, dados, msg, force, t) ==
    IF dados # {}
    THEN [result |-> Result(dados, "api", Msg(msg, "", TRUE)),
          cache |-> salvar_cache(c, dados, msg, force, t).cache]
    ELSE [result |-> Result({}, "error", Msg(msg, "", FALSE)), cache |-> c]

\* steps 4-6: what load() does with the pair returned by the retrying fetch
AposApi(c, dados, msg, force, t) ==
    IF dados # {}
    THEN [result |-> Result(dados, "api", Msg(msg, "", TRUE)),
          cache |-> salvar_cache(c, dados, msg, force, t).cache]
    ELSE IF TemDados(c)
         THEN [result |-> Result(carregar_cache(c).dados, "fallback", Msg("Cache (fallback apos erro)", "", FALSE)),
               cache |-> c]
         ELSE [result |-> Result({}, "error", Msg(msg, "", FALSE)), cache |-> c]

\* forcar_atualizacao_cache(): what it does with the fetched pair
AposApiForcado(c, dados, msg, t) ==
    IF dados # {}
    THEN LET sv == salvar_cache(c, dados, msg, TRUE, t)
         IN  [result |-> Result(dados, IF sv.ok THEN "forcado_ok" ELSE "forcado_erro_salvar", Msg(msg, "", FALSE)),
              cache |-> sv.cache]
    ELSE [result |-> Result({}, "forcado_erro", Msg(msg, "", FALSE)), cache |-> c]

Retorno(l, c, dados, msg, t) ==
    IF l.kind = "load" THEN AposApi(c, dados, msg, l.force, t)
    ELSE AposApiForcado(c, dados, msg, t)

LoaderFree == ld.pc \in {"idle", "done"}

\* carregar_dados_ipca_com_retry(forcar_atualizacao): steps 1 and 2
LoadStart(force) ==
    /\ LoaderFree /\ ld.n < MaxLoads
    /\ LET base == [LoadIdle EXCEPT !.kind = "load", !.force = force, !.n = ld.n + 1]
           r == is_open(cb, now)
       IN  IF UsaCacheAtualizado(cache, force, now)
           THEN /\ ld' = [base EXCEPT !.pc = "done",
                              !.result = Result(carregar_cache(cache).dados, "cache",
                                                Msg(carregar_cache(cache).info, "", FALSE))]
                /\ cb' = cb
           ELSE IF r.ret
           THEN /\ ld' = [base EXCEPT !.pc = "done", !.result = ResultadoBloqueado(cache, r.cb)]
                /\ cb' = r.cb
           ELSE /\ ld' = [base EXCEPT !.pc = "attempt", !.tentativa = 1]
                /\ cb' = r.cb
    /\ UNCHANGED <<now, t0, cache, rl, rlLog, orq, svc, cor, cc, op, ipca_service, hc, resultado_final, rota, email_service>>

\* forcar_atualizacao_cache(): goes straight to the retrying fetch
ForcarStart ==
    /\ LoaderFree /\ ld.n < MaxLoads
    /\ ld' = [LoadIdle EXCEPT !.kind = "forcar", !.force = TRUE, !.n = ld.n + 1,
                              !.pc = "attempt", !.tentativa = 1]
    /\ UNCHANGED <<now, t0, cb, cache, rl, rlLog, orq, svc, cor, cc, op, ipca_service, hc, resultado_final, rota, email_service>>

\* one iteration of the loop of carregar_dados_ipca_da_api whose provider
\* call returns: record_success and return to the caller
AttemptOk(out) ==
    /\ ld.pc = "attempt" /\ out.ok
    /\ cb' = record_success(cb)
    /\ LET fim == Retorno(ld, cache, out.serie, InfoApi, now)
       IN  /\ ld' = [ld EXCEPT !.pc = "done", !.calls = @ + 1, !.succs = @ + 1,
                              !.desde = cb.state,
                              !.api = Result(out.serie, "ok", Msg(InfoApi, "", FALSE)),
                              !.result = fim.result]
           /\ cache' = fim.cache
    /\ UNCHANGED <<now, t0, rl, rlLog, orq, svc, cor, cc, op, ipca_service, hc, resultado_final, rota, email_service>>

ProximoPasso_mut(tentativa) == "sleep"

\* after a failed attempt: sleep before the next one, or give up
ProximoPasso(tentativa) == IF tentativa < MAX_TENTATIVAS THEN "sleep" ELSE "return"

\* one iteration whose provider call raises: record_failure, then sleep or
\* return the empty series
AttemptFail ==
    /\ ld.pc = "attempt"
    /\ cb' = record_failure(cb, now)
    /\ IF ProximoPasso(ld.tentativa) = "sleep"
       THEN /\ ld' = [ld EXCEPT !.pc = "sleep", !.calls = @ + 1, !.fails = @ + 1]
            /\ cache' = cache
       ELSE LET fim == Retorno(ld, cache, {}, InfoErro, now)
            IN  /\ ld' = [ld EXCEPT !.pc = "done", !.calls = @ + 1, !.fails = @ + 1,
                                   !.api = Result({}, "erro", Msg(InfoErro, "", FALSE)),
                                   !.result = fim.result]
                /\ cache' = fim.cache
    /\ UNCHANGED <<now, t0, rl, rlLog, orq, svc, cor, cc, op, ipca_service, hc, resultado_final, rota, email_service>>

\* time.sleep(INTERVALO_RETRY), then the next iteration of the loop
Sleep ==
    /\ ld.pc = "sleep"
    /\ now' = now + INTERVALO_RETRY
    /\ ld' = [ld EXCEPT !.pc = IF ld.tentativa + 1 <= MAX_TENTATIVAS THEN "attempt" ELSE "done",
                        !.tentativa = @ + 1, !.sleeps = @ + 1]
    /\ UNCHANGED <<t0, cb, cache, rl, rlLog, orq, svc, cor, cc, op, ipca_service, hc, resultado_final, rota, email_service>>

\* resetar_circuit_breaker()
ResetBreaker ==
    /\ LoaderFree
    /\ cb' = record_success(cb)
    /\ UNCHANGED <<now, t0, cache, ld, rl, rlLog, orq, svc, cor, cc, op, ipca_service, hc, resultado_final, rota, email_service>>

\* limpar_cache_ipca()
LimparCache ==
    /\ LoaderFree
    /\ cache' = limpar_cache(cache)
    /\ UNCHANGED <<now, t0, cb, ld, rl, rlLog, orq, svc, cor, cc, op, ipca_service, hc, resultado_final, rota, email_service>>

\* idle time passes between two operations
Tick ==
    /\ LoaderFree
    /\ \E d \in TickSteps :
          /\ now + d - t0 <= MaxRun
          /\ now' = now + d
    /\ UNCHANGED <<t0, cb, cache, ld, rl, rlLog, orq, svc, cor, cc, op, ipca_service, hc, resultado_final, rota, email_service>>

----------------------------------------------------------------------------
(* Rate limiter, app/middlewares/rate_limit.py *)

\* timedelta(minutes=1) and self._cleanup_interval, in seconds
JanelaSegundos == 60
cleanup_interval == 60

Addrs == {"10.0.0.1", "10.0.0.2"}

\* A request as the limiter sees it: the X-Forwarded-For header split at
\* commas (<<>> when absent or empty), the X-Real-IP header ("" when
\* absent) and request.client.host ("" when there is no client).
Requests ==
    {[forwarded |-> f, real_ip |-> r, host |-> h] :
        f \in {<<>>, <<"10.0.0.1">>, <<"10.0.0.2", "10.0.0.1">>},
        r \in {"", "10.0.0.2"},
        h \in {"", "10.0.0.1"}}

\* _get_client_ip(request)
get_client_ip(req) ==
    IF req.forwarded # <<>> THEN req.forwarded[1]
    ELSE IF req.real_ip # "" THEN req.real_ip
    ELSE IF req.host # "" THEN req.host
    ELSE "unknown"

ClientIPs == Addrs \cup {"unknown"}

\* [timestamp for timestamp in lst if current_time - timestamp < 1 minute]
Recentes(lst, t) == SelectSeq(lst, LAMBDA ts : t - ts < JanelaSegundos)

\* self.requests[ip] of the defaultdict: the stored list, [] for a new key
Lista(reqs, ip) == IF ip \in DOMAIN reqs THEN reqs[ip] ELSE <<>>

\* the dict after self.requests[ip] was evaluated (the key now exists)
ComChave(reqs, ip) == [k \in DOMAIN reqs \cup {ip} |-> Lista(reqs, k)]

LimiteAtingido_mut(reqs, ip, t) == Len(Recentes(Lista(reqs, ip), t)) > requests_per_minute

\* len(recent_requests) >= self.requests_per_minute
LimiteAtingido(reqs, ip, t) == Len(Recentes(Lista(reqs, ip), t)) >= requests_per_minute

LimiterInit == [requests |-> <<>>, initialized |-> FALSE, wake |-> None]

LogInit ==
    [aceitos |-> [ip \in ClientIPs |-> <<>>], n |-> 0,
     ultimo |-> [ip |-> "", t |-> None, status |-> 0]]

\* _ensure_cleanup_task(), called inside a running event loop: the first
\* call creates the sweep task, which starts by sleeping cleanup_interval
ensure_cleanup_task(l, t) ==
    IF l.initialized THEN l
    ELSE [l EXCEPT !.initialized = TRUE, !.wake = t + cleanup_interval]

CheckRateLimit_mut(req) ==
    /\ rlLog.n < MaxRequests
    /\ LET ip == get_client_ip(req)
           l1 == ensure_cleanup_task(rl, now)
           reqs == ComChave(l1.requests, ip)
       IN  IF LimiteAtingido(l1.requests, ip, now)
           THEN /\ rl' = [l1 EXCEPT !.requests = [reqs EXCEPT ![ip] = Append(@, now)]]
                /\ rlLog' = [rlLog EXCEPT !.n = @ + 1,
                                !.ultimo = [ip |-> ip, t |-> now, status |-> 429]]
           ELSE /\ rl' = [l1 EXCEPT !.requests = [reqs EXCEPT ![ip] = Append(@, now)]]
                /\ rlLog' = [rlLog EXCEPT !.n = @ + 1,
                                !.aceitos[ip] = Append(@, now),
                                !.ultimo = [ip |-> ip, t |-> now, status |-> 200]]
    /\ UNCHANGED <<now, t0, cb, cache, ld, orq, svc, cor, cc, op, ipca_service, hc, resultado_final, rota, email_service>>

\* check_rate_limit(request): HTTP 429 or the timestamp is recorded
CheckRateLimit(req) ==
    /\ rlLog.n < MaxRequests
    /\ LET ip == get_client_ip(req)
           l1 == ensure_cleanup_task(rl, now)
           reqs == ComChave(l1.requests, ip)
       IN  IF LimiteAtingido(l1.requests, ip, now)
           THEN /\ rl' = [l1 EXCEPT !.requests = reqs]
                /\ rlLog' = [rlLog EXCEPT !.n = @ + 1,
                                !.ultimo = [ip |-> ip, t |-> now, status |-> 429]]
           ELSE /\ rl' = [l1 EXCEPT !.requests = [reqs EXCEPT ![ip] = Append(@, now)]]
                /\ rlLog' = [rlLog EXCEPT !.n = @ + 1,
                                !.aceitos[ip] = Append(@, now),
                                !.ultimo = [ip |-> ip, t |-> now, status |-> 200]]
    /\ UNCHANGED <<now, t0, cb, cache, ld, orq, svc, cor, cc, op, ipca_service, hc, resultado_final, rota, email_service>>

Cleanup_mut ==
    /\ rl.initialized /\ now >= rl.wake
    /\ rl' = [rl EXCEPT !.requests = [ip \in DOMAIN rl.requests |-> Recentes(rl.requests[ip], now)],
                        !.wake = now + cleanup_interval]
    /\ UNCHANGED <<now, t0, cb, cache, ld, rlLog, orq, svc, cor, cc, op, ipca_service, hc, resultado_final, rota, email_service>>

\* one round of _cleanup_old_requests(): old timestamps are dropped and
\* the keys left without timestamps are deleted; then it sleeps again
Cleanup ==
    /\ rl.initialized /\ now >= rl.wake
    /\ LET kept == {ip \in DOMAIN rl.requests : Recentes(rl.requests[ip], now) # <<>>}
       IN  rl' = [rl EXCEPT !.requests = [ip \in kept |-> Recentes(rl.requests[ip], now)],
                           !.wake = now + cleanup_interval]
    /\ UNCHANGED <<now, t0, cb, cache, ld, rlLog, orq, svc, cor, cc, op, ipca_service, hc, resultado_final, rota, email_service>>

\* reset(): forgets every request and cancels the sweep task
ResetLimiter ==
    /\ rl' = LimiterInit
    /\ rlLog' = [LogInit EXCEPT !.n = rlLog.n]
    /\ UNCHANGED <<now, t0, cb, cache, ld, orq, svc, cor, cc, op, ipca_service, hc, resultado_final, rota, email_service>>

\* idle time passes between two requests
TickLimiter ==
    /\ \E d \in LimiterTickSteps :
          /\ now + d - t0 <= MaxRunLimiter
          /\ now' = now + d
    /\ UNCHANGED <<t0, cb, cache, ld, rl, rlLog, orq, svc, cor, cc, op, ipca_service, hc, resultado_final, rota, email_service>>

\* time as the sweep task sees it: asyncio.sleep(cleanup_interval) ends when
\* its timer fires, so time does not pass the task's wake-up without the
\* round being run; past MaxRunLimiter time only passes while the limiter
\* still holds entries, for one window and one sweep interval at most
TickSweep ==
    /\ \E d \in SweepTickSteps :
          /\ \/ now + d - t0 <= MaxRunLimiter
             \/ /\ DOMAIN rl.requests # {}
                /\ now + d - t0 <= MaxRunLimiter + JanelaSegundos + cleanup_interval
          /\ now' = IF rl.initialized /\ now + d > rl.wake THEN rl.wake ELSE now + d
    /\ now' > now
    /\ UNCHANGED <<t0, cb, cache, ld, rl, rlLog, orq, svc, cor, cc, op, ipca_service, hc, resultado_final, rota, email_service>>

----------------------------------------------------------------------------
(* Transparency streaming, app/utils/data_loader.py *)

\* max_tentativas_sem_mudanca of the polling loop
max_tentativas_sem_mudanca == 30

\* A scraped record: its MES field (0 when absent), its ANO field (0 when
\* absent) and whether one of the campos_monetarios holds a parsable value.
Registro(mes, ano, campo) == [MES |-> mes, ANO |-> ano, campo |-> campo]

\* One entry of dados_por_ano: the year key, the shape of the value (a dict
\* with "dados", a bare list, or anything else) and its records.
Bucket(ano, tipo, dados) == [ano |-> ano, tipo |-> tipo, dados |-> dados]

\* the key is not in the answer
Ausente == <<Bucket(0, "ausente", <<>>)>>

\* year dicts the crawler may send (in iteration order)
DictVazio == <<>>
Dict2020 == <<Bucket(2020, "dict", <<Registro(1, 2020, TRUE), Registro(1, 2020, FALSE)>>)>>
Dict2020e2021 ==
    <<Bucket(2020, "dict", <<Registro(1, 2020, TRUE), Registro(1, 2020, FALSE)>>),
      Bucket(2021, "list", <<Registro(0, 0, TRUE)>>)>>
DictSemDados == <<Bucket(2021, "dict", <<>>), Bucket(2020, "outro", <<>>)>>
Dict2021 == <<Bucket(2021, "list", <<Registro(0, 0, TRUE)>>)>>

\* the IPCA series held by ipca_service, as the set of its periods
\* <<month, year>> (index values are positive)
IpcaCompleto == {<<1, 2020>>, <<12, 2020>>, <<1, 2021>>, <<12, 2021>>}
IpcaSem2020 == {<<1, 2021>>, <<12, 2021>>}
IpcaSeries == {IpcaCompleto, IpcaSem2020, {}}

\* the reference period of the query: 12/2021 (mensal) or 2021 (anual)
Referencia == [mes |-> 12, ano |-> 2021]

\* ipca_service.calcular_media_anual(ano, meses) raises ValueError when
\* none of the months has a value
MediaAnualFalha(serie, ano) == ~\E m \in 1..12 : <<m, ano>> \in serie

\* obtaining ipca_base fails (and the generator raises)
IpcaBaseFalha(serie, tipo) ==
    IF tipo = "anual" THEN MediaAnualFalha(serie, Referencia.ano)
    ELSE <<Referencia.mes, Referencia.ano>> \notin serie

\* mes_dado of a record: its month, "12" when it has none
MesDoItem(item) == IF item.MES = 0 THEN 12 ELSE item.MES

\* ano_dado of a record: ano_contexto when one is given (ano # 0), else the
\* record's own year, 0 when it has none
AnoDoItem(item, ano) == IF ano # 0 THEN ano ELSE item.ANO

\* the keys of periodos_por_ano that matter to the annual averages
AnosColetados(dados, ano) ==
    IF ano # 0 THEN {ano} ELSE {dados[i].ANO : i \in DOMAIN dados} \ {0}

\* periodos_por_ano[y]: with ano_contexto the whole year (annual) or the
\* months found in the records; without it the months of the records of
\* year y, the whole year as soon as one of them has no month
MesesColetados(dados, ano, tipo, y) ==
    IF ano # 0
    THEN IF tipo = "anual" THEN 1..12
         ELSE {dados[i].MES : i \in {j \in DOMAIN dados : dados[j].MES # 0}}
    ELSE IF \E i \in DOMAIN dados : dados[i].ANO = y /\ dados[i].MES = 0 THEN 1..12
         ELSE {dados[i].MES : i \in {j \in DOMAIN dados : dados[j].ANO = y}}

\* calcular_media_anual(ano, meses) raises ValueError when none of the given
\* months has a value
MediaDosMesesFalha(serie, y, meses) == ~\E m \in meses : <<m, y>> \in serie

\* the annual averages are computed before the loop, outside any try: the
\* call raises when a collected year has no value in the series
ProcessarFalha(dados, ano, tipo, serie) ==
    /\ tipo = "anual"
    /\ \E y \in AnosColetados(dados, ano) :
          LET meses == MesesColetados(dados, ano, tipo, y)
          IN  meses # {} /\ MediaDosMesesFalha(serie, y, meses)

\* motivo_nao_processado of one pass of the loop body, "" when the record is
\* corrected
Motivo(item, ano, tipo, serie) ==
    LET y == AnoDoItem(item, ano)
    IN  IF y = 0 THEN "Ano invalido"
        ELSE IF tipo = "mensal" /\ <<MesDoItem(item), y>> \notin serie
             THEN "IPCA nao encontrado"
        ELSE IF ~item.campo THEN "Nenhum campo monetario valido encontrado"
        ELSE ""

\* does the loop body of processar_correcao_dados correct this record?
ItemCorrigido(item, ano, tipo, serie) == Motivo(item, ano, tipo, serie) = ""

\* what the loop appends to dados_nao_processados for a record it gives up
EntradaNaoProcessada(item, motivo) == <<[item_original |-> item, motivo |-> motivo]>>

RECURSIVE LacoCorrecao(_, _, _, _, _, _)
\* the loop over dados from position i on, with the two lists built so far
LacoCorrecao(dados, i, ano, tipo, serie, acc) ==
    IF i > Len(dados) THEN acc
    ELSE LET item == dados[i]
             motivo == Motivo(item, ano, tipo, serie)
         IN  LacoCorrecao(dados, i + 1, ano, tipo, serie,
                IF motivo = ""
                THEN [acc EXCEPT !.corrigidos = Append(@, item)]
                ELSE [acc EXCEPT !.nao = @ \o EntradaNaoProcessada(item, motivo)])

\* processar_correcao_dados(dados, ..., ano_contexto = ano) when it returns:
\* the corrected records and the unprocessed entries
processar_correcao_dados(dados, ano, tipo, serie) ==
    LacoCorrecao(dados, 1, ano, tipo, serie, [corrigidos |-> <<>>, nao |-> <<>>])

\* the records a call may receive
RegistrosDeEntrada ==
    {Registro(1, 2020, TRUE), Registro(1, 2020, FALSE), Registro(0, 0, TRUE),
     Registro(0, 2021, TRUE)}

ListasDeRegistros == UNION {[1..n -> RegistrosDeEntrada] : n \in 0..MaxRegistros}

\* A record as an object of the interpreter: the fields it was given, whether
\* its monetary fields hold corrected values, and whether it has the
\* _correcao_aplicada key. Objects live in a heap, a sequence indexed by
\* their identity.
Objeto(item) == [campos |-> item, valores_corrigidos |-> FALSE, correcao_aplicada |-> FALSE]

\* the records of the argument dados as objects: record i has identity i
HeapDeEntrada(dados) == [i \in DOMAIN dados |-> Objeto(dados[i])]

Copia_mut(heap, ref) == [ref |-> ref, heap |-> heap]

\* item_corrigido = item.copy(): a new object with the fields of item
Copia(heap, ref) == [ref |-> Len(heap) + 1, heap |-> Append(heap, heap[ref])]

RECURSIVE LacoObjetos(_, _, _, _, _, _)
\* the loop over the objects of dados from position i on: every assignment
\* of the loop body is made to the object item_corrigido names, and
\* item_original names the object of the argument itself
LacoObjetos(n, i, ano, tipo, serie, acc) ==
    IF i > n THEN acc
    ELSE LET c == Copia(acc.heap, i)
             item == acc.heap[i].campos
             motivo == Motivo(item, ano, tipo, serie)
         IN  LacoObjetos(n, i + 1, ano, tipo, serie,
                IF motivo = ""
                THEN [acc EXCEPT !.heap = [c.heap EXCEPT ![c.ref].valores_corrigidos = TRUE,
                                                         ![c.ref].correcao_aplicada = TRUE],
                                 !.corrigidos = Append(@, c.ref)]
                ELSE [acc EXCEPT !.heap = c.heap,
                                 !.nao = Append(@, [item_original |-> i, motivo |-> motivo])])

\* the objects after processar_correcao_dados returned, with the objects its
\* two lists name
ObjetosDaCorrecao(dados, ano, tipo, serie) ==
    LacoObjetos(Len(dados), 1, ano, tipo, serie,
                [heap |-> HeapDeEntrada(dados), corrigidos |-> <<>>, nao |-> <<>>])

CorInit ==
    [pc |-> "entrada", dados |-> <<>>, ano |-> 0, tipo |-> "mensal", serie |-> {},
     corrigidos |-> <<>>, nao |-> <<>>,
     heap |-> <<>>, objetos_corrigidos |-> <<>>, objetos_nao |-> <<>>]

\* the calls of processar_correcao_dados to examine
EntradasCorrecao ==
    {[CorInit EXCEPT !.dados = d, !.ano = a, !.tipo = tp, !.serie = se,
                     !.heap = HeapDeEntrada(d)] :
        d \in ListasDeRegistros, a \in {0, 2020, 2021}, tp \in {"mensal", "anual"},
        se \in IpcaSeries}

\* one call of processar_correcao_dados: it returns both lists, or the
\* exception of calcular_media_anual leaves it
Corrigir ==
    /\ cor.pc = "entrada"
    /\ cor' =
         IF ProcessarFalha(cor.dados, cor.ano, cor.tipo, cor.serie)
         THEN [cor EXCEPT !.pc = "levantou"]
         ELSE LET pr == processar_correcao_dados(cor.dados, cor.ano, cor.tipo, cor.serie)
                  ob == ObjetosDaCorrecao(cor.dados, cor.ano, cor.tipo, cor.serie)
              IN  [cor EXCEPT !.pc = "retornou", !.corrigidos = pr.corrigidos,
                              !.nao = pr.nao,
                              !.heap = ob.heap, !.objetos_corrigidos = ob.corrigidos,
                              !.objetos_nao = ob.nao]
    /\ UNCHANGED <<now, t0, cb, cache, ld, rl, rlLog, orq, svc, cc, op, ipca_service, hc, resultado_final, rota, email_service>>

\* reorganizar_dados_por_ano: the records grouped under the year each record
\* itself names (_ano_validado, ANO or ano); a record that names no year is
\* skipped. A group is kept as its year, its records and its total_registros
reorganizar_dados_por_ano(dados) ==
    {[ano |-> a,
      dados |-> SelectSeq(dados, LAMBDA item : item.ANO = a),
      total_registros |-> Len(SelectSeq(dados, LAMBDA item : item.ANO = a))] :
        a \in {dados[i].ANO : i \in DOMAIN dados} \ {0}}

\* the dados_por_ano key of an event: absent, or the groups it holds
SemDadosPorAno == [presente |-> FALSE, grupos |-> {}]
DadosPorAno(dados) == [presente |-> TRUE, grupos |-> reorganizar_dados_por_ano(dados)]

\* stream events
Parcial(ano, pr) ==
    [status |-> "parcial", ano |-> ano, n |-> Len(pr.corrigidos), nao |-> Len(pr.nao),
     obs |-> FALSE, dados_por_ano |-> SemDadosPorAno]
Completo_mut(todos, nao, obs) ==
    [status |-> "completo", ano |-> 0, n |-> Len(todos) + Len(nao), nao |-> Len(nao), obs |-> obs,
     dados_por_ano |-> IF obs THEN SemDadosPorAno ELSE DadosPorAno(todos)]
\* the completo event; the one sent after the timeout (obs) has an
\* observacao key and no dados_por_ano key
Completo(todos, nao, obs) ==
    [status |-> "completo", ano |-> 0, n |-> Len(todos), nao |-> Len(nao), obs |-> obs,
     dados_por_ano |-> IF obs THEN SemDadosPorAno ELSE DadosPorAno(todos)]
Erro == [status |-> "erro", ano |-> 0, n |-> 0, nao |-> 0, obs |-> FALSE,
         dados_por_ano |-> SemDadosPorAno]
Cancelado == [status |-> "cancelado", ano |-> 0, n |-> 0, nao |-> 0, obs |-> FALSE,
              dados_por_ano |-> SemDadosPorAno]

\* the records of a bucket as the synchronous branch extracts them
DadosSincrono(b) == IF b.tipo \in {"dict", "list"} THEN b.dados ELSE <<>>

\* the records of a bucket as the polling branch extracts them: None
\* (here <<>>) unless a non-empty list is found
DadosAssincrono(b) == IF b.tipo \in {"dict", "list"} THEN b.dados ELSE <<>>

SemResposta == [kind |-> "nenhuma", status |-> "", dpa |-> Ausente, parc |-> Ausente]

OrqInit ==
    [pc |-> "idle", tipo |-> "mensal", serie |-> {}, resp |-> SemResposta,
     idx |-> 0, chave |-> 0, novos |-> FALSE,
     eventos |-> <<>>, anos_ja_processados |-> {}, todos_dados |-> <<>>,
     nao_processados |-> <<>>, tentativas_sem_mudanca |-> 0, modo |-> "", k |-> None]

\* answers to POST /consultar: a bad HTTP status or connection error, a
\* synchronous result with or without dados_por_ano, an id_consulta, or
\* something else
RespostasIniciais ==
    {[kind |-> k, status |-> "", dpa |-> Ausente, parc |-> Ausente] :
        k \in {"http_erro", "assincrono", "desconhecido"}}
    \cup {[kind |-> "sincrono", status |-> "", dpa |-> d, parc |-> Ausente] :
        d \in {Ausente, DictVazio, Dict2020, Dict2020e2021, DictSemDados}}

\* answers to GET /status-consulta/{id}
RespostasStatus ==
    {[kind |-> "http_erro", status |-> "", dpa |-> Ausente, parc |-> Ausente]}
    \cup {[kind |-> "status", status |-> st, dpa |-> d, parc |-> q] :
        st \in {"processando", "concluido"},
        d \in {Ausente, DictVazio, Dict2020, Dict2020e2021},
        q \in {Ausente, DictSemDados, Dict2021}}

\* the year dict the polling loop iterates: dados_por_ano if the key is
\* present, else dados_parciais_por_ano, else {}
DadosPorAnoDoStatus(r) ==
    IF r.dpa # Ausente THEN r.dpa ELSE IF r.parc # Ausente THEN r.parc ELSE <<>>

\* the dict under the k-th key of ["dados_por_ano", "dados_parciais_por_ano"]
DictDaChave(r, k) ==
    LET d == IF k = 1 THEN r.dpa ELSE r.parc
    IN  IF d = Ausente THEN <<>> ELSE d

\* the generator stopped: its frame is gone, only what it yielded remains
Encerrado(o, pc) ==
    [o EXCEPT !.pc = pc, !.resp = SemResposta, !.idx = 0, !.chave = 0, !.novos = FALSE]

AposBreak_mut == "poll"

\* where the polling loop goes after its terminal yield: the break ends it
AposBreak == "done"

\* the service and the route belong to another request
OrqLivre == svc.pc = "idle" /\ ~svc.cancel

\* consultar_transparencia_streaming up to the answer of POST /consultar
Start(tipo, serie, r) ==
    /\ orq.pc = "idle"
    /\ OrqLivre
    /\ LET o == [orq EXCEPT !.tipo = tipo, !.serie = serie, !.modo = r.kind]
       IN  orq' =
             IF IpcaBaseFalha(serie, tipo) THEN Encerrado([o EXCEPT !.modo = ""], "raised")
             ELSE IF r.kind \in {"http_erro", "desconhecido"} THEN Encerrado(o, "raised")
             ELSE IF r.kind = "assincrono" THEN [o EXCEPT !.pc = "poll"]
             ELSE IF r.dpa = Ausente
                  THEN Encerrado([o EXCEPT !.eventos = <<Erro>>], "done")
             ELSE [o EXCEPT !.pc = "sync", !.resp = r, !.idx = 1, !.k = Len(r.dpa)]
    /\ UNCHANGED <<now, t0, cb, cache, ld, rl, rlLog, svc, cor, cc, op, ipca_service, hc, resultado_final, rota, email_service>>

\* one resumption of the synchronous branch: the next year of
\* dados_por_ano, or the final event after the last one
SyncStep ==
    /\ orq.pc = "sync"
    /\ orq' =
         IF orq.idx > Len(orq.resp.dpa)
         THEN Encerrado([orq EXCEPT !.eventos = Append(@,
                            Completo(orq.todos_dados, orq.nao_processados, FALSE))], "done")
         ELSE LET b == orq.resp.dpa[orq.idx]
                  pr == processar_correcao_dados(DadosSincrono(b), b.ano, orq.tipo, orq.serie)
              IN  IF ProcessarFalha(DadosSincrono(b), b.ano, orq.tipo, orq.serie)
                  THEN Encerrado(orq, "raised")
                  ELSE [orq EXCEPT !.todos_dados = @ \o pr.corrigidos,
                                   !.nao_processados = @ \o pr.nao,
                                   !.eventos = Append(@, Parcial(b.ano, pr)),
                                   !.idx = @ + 1]
    /\ UNCHANGED <<now, t0, cb, cache, ld, rl, rlLog, svc, cor, cc, op, ipca_service, hc, resultado_final, rota, email_service>>

\* sleep 2 s, GET /status-consulta, choose the year dict to iterate
Poll(r) ==
    /\ orq.pc = "poll"
    /\ orq' =
         IF r.kind = "http_erro" THEN Encerrado(orq, "raised")
         ELSE IF DadosPorAnoDoStatus(r) # <<>>
              THEN [orq EXCEPT !.pc = "anos", !.resp = r, !.idx = 1, !.novos = FALSE]
              ELSE [orq EXCEPT !.pc = "apos", !.resp = r,
                               !.tentativas_sem_mudanca = @ + 1]
    /\ UNCHANGED <<now, t0, cb, cache, ld, rl, rlLog, svc, cor, cc, op, ipca_service, hc, resultado_final, rota, email_service>>

AnoStep_mut ==
    /\ orq.pc = "anos"
    /\ LET d == DadosPorAnoDoStatus(orq.resp)
       IN  orq' =
             IF orq.idx > Len(d)
             THEN [orq EXCEPT !.pc = "apos", !.idx = 0, !.novos = FALSE,
                              !.tentativas_sem_mudanca = IF orq.novos THEN 0 ELSE @ + 1]
             ELSE LET b == d[orq.idx]
                      pr == processar_correcao_dados(DadosAssincrono(b), b.ano,
                                                     orq.tipo, orq.serie)
                  IN  IF DadosAssincrono(b) = <<>>
                      THEN [orq EXCEPT !.idx = @ + 1]
                      ELSE IF ProcessarFalha(DadosAssincrono(b), b.ano, orq.tipo, orq.serie)
                      THEN Encerrado([orq EXCEPT !.anos_ja_processados = @ \cup {b.ano}],
                                     "raised")
                      ELSE [orq EXCEPT !.anos_ja_processados = @ \cup {b.ano},
                                       !.novos = TRUE,
                                       !.todos_dados = @ \o pr.corrigidos,
                                       !.nao_processados = @ \o pr.nao,
                                       !.eventos = Append(@, Parcial(b.ano, pr)),
                                       !.idx = @ + 1]
    /\ UNCHANGED <<now, t0, cb, cache, ld, rl, rlLog, svc, cor, cc, op, ipca_service, hc, resultado_final, rota, email_service>>

\* one iteration of the loop over the years of the status answer
AnoStep ==
    /\ orq.pc = "anos"
    /\ LET d == DadosPorAnoDoStatus(orq.resp)
       IN  orq' =
             IF orq.idx > Len(d)
             THEN [orq EXCEPT !.pc = "apos", !.idx = 0, !.novos = FALSE,
                              !.tentativas_sem_mudanca = IF orq.novos THEN 0 ELSE @ + 1]
             ELSE LET b == d[orq.idx]
                      pr == processar_correcao_dados(DadosAssincrono(b), b.ano,
                                                     orq.tipo, orq.serie)
                  IN  IF b.ano \in orq.anos_ja_processados \/ DadosAssincrono(b) = <<>>
                      THEN [orq EXCEPT !.idx = @ + 1]
                      ELSE IF ProcessarFalha(DadosAssincrono(b), b.ano, orq.tipo, orq.serie)
                      THEN Encerrado([orq EXCEPT !.anos_ja_processados = @ \cup {b.ano}],
                                     "raised")
                      ELSE [orq EXCEPT !.anos_ja_processados = @ \cup {b.ano},
                                       !.novos = TRUE,
                                       !.todos_dados = @ \o pr.corrigidos,
                                       !.nao_processados = @ \o pr.nao,
                                       !.eventos = Append(@, Parcial(b.ano, pr)),
                                       !.idx = @ + 1]
    /\ UNCHANGED <<now, t0, cb, cache, ld, rl, rlLog, svc, cor, cc, op, ipca_service, hc, resultado_final, rota, email_service>>

\* after the loop over the years: concluded, timed out, or poll again
Apos ==
    /\ orq.pc = "apos"
    /\ orq' =
         IF orq.resp.status = "concluido"
         THEN [orq EXCEPT !.pc = "finais", !.chave = 1, !.idx = 1]
         ELSE IF orq.tentativas_sem_mudanca >= max_tentativas_sem_mudanca
         THEN Encerrado([orq EXCEPT !.eventos = Append(@,
                  IF orq.todos_dados # <<>>
                  THEN Completo(orq.todos_dados, orq.nao_processados, TRUE)
                  ELSE Erro)], AposBreak)
         ELSE [orq EXCEPT !.pc = "poll", !.resp = SemResposta]
    /\ UNCHANGED <<now, t0, cb, cache, ld, rl, rlLog, svc, cor, cc, op, ipca_service, hc, resultado_final, rota, email_service>>

\* one iteration of the loops over both keys of a concluded answer, or the
\* final event after them
FinalStep ==
    /\ orq.pc = "finais"
    /\ orq' =
         IF orq.chave > 2
         THEN Encerrado([orq EXCEPT !.eventos = Append(@,
                            Completo(orq.todos_dados, orq.nao_processados, FALSE))],
                        AposBreak)
         ELSE LET d == DictDaChave(orq.resp, orq.chave)
              IN  IF orq.idx > Len(d)
                  THEN [orq EXCEPT !.chave = @ + 1, !.idx = 1]
                  ELSE LET b == d[orq.idx]
                           pr == processar_correcao_dados(DadosAssincrono(b), b.ano,
                                                          orq.tipo, orq.serie)
                       IN  IF b.ano \in orq.anos_ja_processados \/ DadosAssincrono(b) = <<>>
                           THEN [orq EXCEPT !.idx = @ + 1]
                           ELSE IF ProcessarFalha(DadosAssincrono(b), b.ano, orq.tipo, orq.serie)
                           THEN Encerrado(orq, "raised")
                           ELSE [orq EXCEPT !.todos_dados = @ \o pr.corrigidos,
                                            !.nao_processados = @ \o pr.nao,
                                            !.eventos = Append(@, Parcial(b.ano, pr)),
                                            !.idx = @ + 1]
    /\ UNCHANGED <<now, t0, cb, cache, ld, rl, rlLog, svc, cor, cc, op, ipca_service, hc, resultado_final, rota, email_service>>

----------------------------------------------------------------------------
(* TransparenciaService.consultar_dados_streaming and the route's watcher *)

\* positional parameters consultar_transparencia_streaming declares
ParametrosAceitos == 4

\* positional arguments the service passes to it (the last is cancel_event)
ArgumentosDoServico == 5

\* the call raises TypeError before any generator exists
ChamadaFalha == ArgumentosDoServico > ParametrosAceitos

SvcInit == [pc |-> "idle", cancel |-> FALSE, cancelNoInicio |-> FALSE, eventos |-> <<>>]

\* check_client_disconnected sees the client gone and sets cancel_event
SetCancel ==
    /\ orq.pc = "idle"
    /\ ~svc.cancel
    /\ svc' = [svc EXCEPT !.cancel = TRUE]
    /\ UNCHANGED <<now, t0, cb, cache, ld, rl, rlLog, orq, cor, cc, op, ipca_service, hc, resultado_final, rota, email_service>>

\* what the service yields when cancel_event is set before it starts
EventosCanceladoNoInicio == <<Cancelado>>

\* consultar_dados_streaming: with the signal set it yields cancelado and
\* returns; otherwise it calls the orchestrator, the call raises (so the
\* forwarding loop body never runs) and the except branch, where the signal
\* is still unset, yields erro
ServicoStart ==
    /\ svc.pc = "idle"
    /\ orq.pc = "idle"
    /\ ChamadaFalha
    /\ svc' = [svc EXCEPT !.pc = "done", !.cancelNoInicio = svc.cancel,
                          !.eventos = IF svc.cancel THEN EventosCanceladoNoInicio
                                      ELSE <<Erro>>]
    /\ UNCHANGED <<now, t0, cb, cache, ld, rl, rlLog, orq, cor, cc, op, ipca_service, hc, resultado_final, rota, email_service>>

----------------------------------------------------------------------------
(* Concurrent callers of the cache, app/utils/ipca_cache.py *)

Threads == 1..NumThreads

\* the file between open(path, "w") and the end of json.dump
Incompleto == [kind |-> "incompleto"]

ThreadIdle ==
    [pc |-> "idle", dados |-> {}, forcar |-> FALSE, lido |-> NoFile, viuParcial |-> FALSE]

\* cache_lock = Lock(), nobody inside (0 = not held)
CcInit == [lock |-> 0, thr |-> [th \in Threads |-> ThreadIdle]]

\* the program points that touch the file
Regiao == {"l_read", "s_read", "s_trunc", "s_dump", "c_unlink"}

LockLivre_mut(l) == TRUE

\* `with cache_lock:` blocks until the lock is free
LockLivre(l) == l = 0

\* a thread calls carregar_cache(), salvar_cache(dados, info, forcar) or
\* limpar_cache() and reaches the `with cache_lock:` line
ChamarCarregar(th) ==
    /\ cc.thr[th].pc = "idle"
    /\ cc' = [cc EXCEPT !.thr[th].pc = "l_lock"]
    /\ UNCHANGED <<now, t0, cb, cache, ld, rl, rlLog, orq, svc, cor, op, ipca_service, hc, resultado_final, rota, email_service>>

ChamarSalvar(th, dados, forcar) ==
    /\ cc.thr[th].pc = "idle"
    /\ cc' = [cc EXCEPT !.thr[th].pc = "s_lock", !.thr[th].dados = dados,
                        !.thr[th].forcar = forcar]
    /\ UNCHANGED <<now, t0, cb, cache, ld, rl, rlLog, orq, svc, cor, op, ipca_service, hc, resultado_final, rota, email_service>>

ChamarLimpar(th) ==
    /\ cc.thr[th].pc = "idle"
    /\ cc' = [cc EXCEPT !.thr[th].pc = "c_lock"]
    /\ UNCHANGED <<now, t0, cb, cache, ld, rl, rlLog, orq, svc, cor, op, ipca_service, hc, resultado_final, rota, email_service>>

\* the thread leaves the with block: the lock is released, the call returns
\* and its locals are gone
Sair(c, th) ==
    [c EXCEPT !.lock = 0,
              !.thr[th] = [ThreadIdle EXCEPT !.viuParcial = c.thr[th].viuParcial]]

\* the thread enters the with block; salvar_cache then tests the incoming
\* series and forcar before it touches the file
Adquirir(th) ==
    /\ cc.thr[th].pc \in {"l_lock", "s_lock", "c_lock"}
    /\ LockLivre(cc.lock)
    /\ LET me == cc.thr[th]
           dentro == [cc EXCEPT !.lock = th]
       IN  cc' = IF me.pc = "l_lock" THEN [dentro EXCEPT !.thr[th].pc = "l_read"]
                 ELSE IF me.pc = "c_lock" THEN [dentro EXCEPT !.thr[th].pc = "c_unlink"]
                 ELSE IF me.dados = {} THEN Sair(dentro, th)
                 ELSE IF ~me.forcar THEN [dentro EXCEPT !.thr[th].pc = "s_read"]
                 ELSE [dentro EXCEPT !.thr[th].pc = "s_trunc"]
    /\ UNCHANGED <<now, t0, cb, cache, ld, rl, rlLog, orq, svc, cor, op, ipca_service, hc, resultado_final, rota, email_service>>

\* _carregar_cache_sem_lock: the file is read and parsed
LerArquivo(th) ==
    /\ cc.thr[th].pc \in {"l_read", "s_read"}
    /\ LET visto == [cc EXCEPT !.thr[th].lido = carregar_cache(cache),
                               !.thr[th].viuParcial = @ \/ cache = Incompleto]
       IN  cc' = IF cc.thr[th].pc = "l_read" THEN Sair(visto, th)
                 ELSE IF carregar_cache(cache).kind = "doc"
                         /\ carregar_cache(cache).dados = cc.thr[th].dados
                      THEN Sair(visto, th)
                 ELSE [visto EXCEPT !.thr[th].pc = "s_trunc"]
    /\ UNCHANGED <<now, t0, cb, cache, ld, rl, rlLog, orq, svc, cor, op, ipca_service, hc, resultado_final, rota, email_service>>

\* open(self.cache_path, "w") empties the file
Truncar(th) ==
    /\ cc.thr[th].pc = "s_trunc"
    /\ cache' = Incompleto
    /\ cc' = [cc EXCEPT !.thr[th].pc = "s_dump"]
    /\ UNCHANGED <<now, t0, cb, ld, rl, rlLog, orq, svc, cor, op, ipca_service, hc, resultado_final, rota, email_service>>

\* json.dump completes and the file is closed
Gravar(th) ==
    /\ cc.thr[th].pc = "s_dump"
    /\ cache' = Doc(cc.thr[th].dados, InfoApi, now)
    /\ cc' = Sair(cc, th)
    /\ UNCHANGED <<now, t0, cb, ld, rl, rlLog, orq, svc, cor, op, ipca_service, hc, resultado_final, rota, email_service>>

\* limpar_cache: unlink when the file exists
Remover(th) ==
    /\ cc.thr[th].pc = "c_unlink"
    /\ cache' = limpar_cache(cache)
    /\ cc' = Sair(cc, th)
    /\ UNCHANGED <<now, t0, cb, ld, rl, rlLog, orq, svc, cor, op, ipca_service, hc, resultado_final, rota, email_service>>

----------------------------------------------------------------------------
(* Single calls of the cache operations, app/utils/ipca_cache.py *)

OpInit ==
    [pc |-> "entrada", nome |-> "", dados |-> {}, forcar |-> FALSE, antes |-> NoFile,
     ret |-> FALSE]

\* salvar_cache(dados, info, forcar) on the file as it is
Salvar(dados, forcar) ==
    /\ op.pc = "entrada"
    /\ LET r == salvar_cache(cache, dados, InfoApi, forcar, now)
       IN  /\ cache' = r.cache
           /\ op' = [op EXCEPT !.pc = "feito", !.nome = "salvar", !.dados = dados,
                                !.forcar = forcar, !.antes = cache, !.ret = r.ok]
    /\ UNCHANGED <<now, t0, cb, ld, rl, rlLog, orq, svc, cor, cc, ipca_service, hc, resultado_final, rota, email_service>>

\* verificar_atualizacao_necessaria() on the file as it is
Verificar ==
    /\ op.pc = "entrada"
    /\ op' = [op EXCEPT !.pc = "feito", !.nome = "verificar", !.antes = cache,
                        !.ret = verificar_atualizacao_necessaria(cache, now)]
    /\ UNCHANGED <<now, t0, cb, cache, ld, rl, rlLog, orq, svc, cor, cc, ipca_service, hc, resultado_final, rota, email_service>>

\* instants of the calls: 2024-02-20 12:00, 2024-03-03 12:00, 2024-03-05
\* 23:00 and 2024-03-06 01:00
TemposCache ==
    {50 * SecondsPerDay + 43200, 62 * SecondsPerDay + 43200,
     64 * SecondsPerDay + 82800, 65 * SecondsPerDay + 3600}

\* how long before the call the file was last written, in seconds
IdadesCache ==
    {3600, 3 * SecondsPerDay, 29 * SecondsPerDay, 30 * SecondsPerDay,
     30 * SecondsPerDay + 43200, 31 * SecondsPerDay - 1, 31 * SecondsPerDay,
     35 * SecondsPerDay}

\* the files a call may find
ArquivosCache(t) ==
    {NoFile, Corrupt, Doc({}, InfoCacheFile, t - SecondsPerDay),
     Doc(SerieA, InfoCacheFile, BadDate)}
    \cup {Doc(se, InfoCacheFile, t - a) : se \in Series, a \in IdadesCache}

----------------------------------------------------------------------------
(* The IPCA service, app/services/ipca_service.py.  Amounts are counted in
   thousandths, rounded amounts in hundredths, percentages in ten-thousandths
   of a percent; the arithmetic is exact. *)

Digito(n) == <<"0", "1", "2", "3", "4", "5", "6", "7", "8", "9">>[n + 1]

\* f"{mes:02d}" for a month number
Pad2(m) == Digito(m \div 10) \o Digito(m % 10)

\* f"{mes}/{ano}"
Chave(mes, ano) == mes \o "/" \o ano

\* round(): the integer nearest to n/d, a tie going to the even one
RoundHalfEven_mut(n, d) == n \div d

RoundHalfEven(n, d) ==
    LET q == n \div d
        r == n % d
    IN  IF 2 * r < d THEN q
        ELSE IF 2 * r > d THEN q + 1
        ELSE IF q % 2 = 0 THEN q ELSE q + 1

\* a / b on floats
Dividir(a, b) == IF b = 0 THEN [erro |-> "ZeroDivisionError"] ELSE [erro |-> "", num |-> a, den |-> b]

\* outcomes of a call
HTTPException(code) == [fim |-> "HTTPException", status_code |-> code]
Retorna(v) == [fim |-> "retorno", status_code |-> 0, valor |-> v]
Levanta(e) == [fim |-> e, status_code |-> 0]

\* the series a service may hold after carregar_dados_ipca
IpcaVazio == [k \in {} |-> 0]
IpcaCarregado == ("01/2020" :> 100) @@ ("06/2021" :> 100) @@ ("01/2021" :> 107) @@ ("12/2023" :> 120)
IpcaComIndiceInvalido == ("01/2020" :> 0) @@ ("06/2021" :> (0 - 5)) @@ ("12/2023" :> 120)
SeriesDoServico == {IpcaVazio, IpcaCarregado, IpcaComIndiceInvalido}

obter_todos_dados(d, info) == Retorna([info |-> info, data |-> d])

obter_valor_por_data(d, mes, ano) ==
    IF Chave(mes, ano) \in DOMAIN d
    THEN Retorna([data |-> Chave(mes, ano), valor |-> d[Chave(mes, ano)]])
    ELSE HTTPException(404)

\* the argument meses: None or a list of month numbers
MesesNone == [none |-> TRUE, lista |-> {}]
MesesDados(lista) == [none |-> FALSE, lista |-> lista]

RECURSIVE SomaValores(_, _)
SomaValores(d, chaves) ==
    IF chaves = {} THEN 0
    ELSE LET k == CHOOSE x \in chaves : TRUE IN d[k] + SomaValores(d, chaves \ {k})

obter_media_anual(d, ano, meses) ==
    LET ms == IF meses.none THEN 1..12 ELSE meses.lista
        periodos == {Chave(Pad2(m), ano) : m \in {x \in ms : x \in 1..99}} \cap DOMAIN d
    IN  IF ~meses.none /\ \E m \in meses.lista : m < 1 \/ m > 12 THEN HTTPException(400)
        ELSE IF periodos = {} THEN HTTPException(404)
        ELSE Retorna([ano |-> ano,
                      media_ipca |-> RoundHalfEven(SomaValores(d, periodos) * 10000, Cardinality(periodos)),
                      total_meses |-> Cardinality(periodos),
                      meses_disponiveis |-> periodos])

obter_medias_multiplos_anos(d, anos, meses) ==
    Retorna([a \in anos |->
                LET r == obter_media_anual(d, a, meses)
                IN  IF r.fim = "HTTPException" THEN [erro |-> a] ELSE r.valor])

corrigir_valor_mut(d, valor, mes_inicial, ano_inicial, mes_final, ano_final) ==
    LET data_inicial == Chave(mes_inicial, ano_inicial)
        data_final == Chave(mes_final, ano_final)
    IN  IF data_inicial \notin DOMAIN d \/ data_final \notin DOMAIN d THEN HTTPException(404)
        ELSE IF valor < 0 THEN HTTPException(400)
        ELSE IF d[data_inicial] < 0 THEN HTTPException(400)
        ELSE IF d[data_final] < 0 THEN HTTPException(400)
        ELSE LET razao == Dividir(d[data_final], d[data_inicial])
             IN  IF razao.erro # "" THEN Levanta(razao.erro)
                 ELSE Retorna([valor_inicial |-> valor,
                               indice_ipca_inicial |-> d[data_inicial],
                               indice_ipca_final |-> d[data_final],
                               valor_corrigido |-> RoundHalfEven(valor * razao.num, 10 * razao.den),
                               percentual_correcao |->
                                   RoundHalfEven((razao.num - razao.den) * 1000000, razao.den)])

corrigir_valor(d, valor, mes_inicial, ano_inicial, mes_final, ano_final) ==
    LET data_inicial == Chave(mes_inicial, ano_inicial)
        data_final == Chave(mes_final, ano_final)
    IN  IF data_inicial \notin DOMAIN d \/ data_final \notin DOMAIN d THEN HTTPException(404)
        ELSE IF valor < 0 THEN HTTPException(400)
        ELSE IF d[data_inicial] <= 0 THEN HTTPException(400)
        ELSE IF d[data_final] <= 0 THEN HTTPException(400)
        ELSE LET razao == Dividir(d[data_final], d[data_inicial])
             IN  IF razao.erro # "" THEN Levanta(razao.erro)
                 ELSE Retorna([valor_inicial |-> valor,
                               indice_ipca_inicial |-> d[data_inicial],
                               indice_ipca_final |-> d[data_final],
                               valor_corrigido |-> RoundHalfEven(valor * razao.num, 10 * razao.den),
                               percentual_correcao |->
                                   RoundHalfEven((razao.num - razao.den) * 1000000, razao.den)])

\* the service built on a loaded series, no call made yet
IPCAService(d, info) ==
    [ipca_dict |-> d, ipca_info |-> info, pc |-> "pronto", op |-> "",
     args |-> [valor |-> 0, mes |-> "", ano |-> "", mes_final |-> "", ano_final |-> "",
               anos |-> {}, meses |-> MesesNone],
     ret |-> Levanta("")]

InfoDaSerie(d) == IF d = IpcaVazio THEN InfoErro ELSE InfoApi

\* arguments of the calls: months and years as the text of a request,
\* amounts in thousandths.  0.125 and 0.375 are ties a float holds exactly;
\* no other amount meets a tie with these series, so that the exact result
\* is the one the floating-point expression gives.
MesesTexto == {"01", "06", "12", "13"}
AnosTexto == {"2020", "2021", "2023"}
Valores == {0 - 1000000, 0, 125, 375, 333333, 1000000}
ListasDeMeses == {MesesNone, MesesDados({1, 6}), MesesDados({12}), MesesDados({0, 1}), MesesDados({6, 13})}

Responde(nome, args, ret) ==
    /\ ipca_service.pc = "pronto"
    /\ ipca_service' = [ipca_service EXCEPT !.pc = "respondeu", !.op = nome, !.args = args, !.ret = ret]
    /\ UNCHANGED <<now, t0, cb, cache, ld, rl, rlLog, orq, svc, cor, cc, op, hc, resultado_final, rota, email_service>>

ChamaTodosDados ==
    Responde("obter_todos_dados", ipca_service.args, obter_todos_dados(ipca_service.ipca_dict, ipca_service.ipca_info))

ChamaValorPorData(mes, ano) ==
    Responde("obter_valor_por_data", [ipca_service.args EXCEPT !.mes = mes, !.ano = ano],
             obter_valor_por_data(ipca_service.ipca_dict, mes, ano))

ChamaMediaAnual(ano, meses) ==
    Responde("obter_media_anual", [ipca_service.args EXCEPT !.ano = ano, !.meses = meses],
             obter_media_anual(ipca_service.ipca_dict, ano, meses))

ChamaMediasMultiplosAnos(anos, meses) ==
    Responde("obter_medias_multiplos_anos", [ipca_service.args EXCEPT !.anos = anos, !.meses = meses],
             obter_medias_multiplos_anos(ipca_service.ipca_dict, anos, meses))

ChamaCorrigirValor(valor, mes_inicial, ano_inicial, mes_final, ano_final) ==
    Responde("corrigir_valor",
             [ipca_service.args EXCEPT !.valor = valor, !.mes = mes_inicial, !.ano = ano_inicial,
                             !.mes_final = mes_final, !.ano_final = ano_final],
             corrigir_valor(ipca_service.ipca_dict, valor, mes_inicial, ano_inicial, mes_final, ano_final))

----------------------------------------------------------------------------
(* GET /health behind the rate-limit middleware, app/main.py *)

\* request.url.path as its segments; path.startswith("/" + prefixo)
ComecaCom(path, prefixo) == Len(path) > 0 /\ path[1] = prefixo

\* the paths the middleware hands to the limiter
CaminhoLimitado(path) ==
    ComecaCom(path, "ipca") \/ ComecaCom(path, "transparencia") \/ ComecaCom(path, "email")

CaminhoHealth == <<"health">>

\* get_ipca_service(): the service instance, or an exception
GetIpcaServiceOutcomes == {"instancia", "excecao"}

\* obter_status_servico(): the loading status, or an exception
StatusServico(disponivel) == Retorna([dados_disponiveis |-> disponivel])
ObterStatusServicoOutcomes == {StatusServico(TRUE), StatusServico(FALSE), Levanta("Exception")}

JSONResponse(code, status, aviso) ==
    [status_code |-> code, content |-> [status |-> status, aviso |-> aviso]]

\* health_check() without its try/except: the exception reaches the server
health_check_mut(gs, st) ==
    IF gs = "excecao" \/ st.fim # "retorno"
    THEN JSONResponse(500, "Internal Server Error", FALSE)
    ELSE JSONResponse(200, "healthy", ~st.valor.dados_disponiveis)

\* health_check(): the response for the given outcomes of its two calls
health_check(gs, st) ==
    IF gs = "excecao" \/ st.fim # "retorno"
    THEN JSONResponse(200, "degraded", TRUE)
    ELSE JSONResponse(200, "healthy", ~st.valor.dados_disponiveis)

HealthInit ==
    [pc |-> "nenhuma", gs |-> "instancia", st |-> StatusServico(TRUE),
     resposta |-> JSONResponse(0, "", FALSE)]

\* one GET /health through rate_limit_middleware
RequisicaoHealth(gs, st) ==
    /\ ~CaminhoLimitado(CaminhoHealth)
    /\ hc' = [pc |-> "respondida", gs |-> gs, st |-> st, resposta |-> health_check(gs, st)]
    /\ UNCHANGED <<now, t0, cb, cache, ld, rl, rlLog, orq, svc, cor, cc, op, ipca_service, resultado_final, rota, email_service>>

\* one request to a limited path through rate_limit_middleware
RequisicaoApi(req) ==
    /\ CaminhoLimitado(<<"ipca", "filtro">>)
    /\ CheckRateLimit(req)

----------------------------------------------------------------------------
(* carregar_dados_portal_transparencia, app/utils/data_loader.py *)

\* resultado_final = {}
ResultadoVazio == [vazio |-> TRUE]

CargaInit == [pc |-> "idle", valor |-> ResultadoVazio]

\* the positions of the completo events of a stream
PosicoesCompleto(ev) == {i \in DOMAIN ev : ev[i].status = "completo"}

\* the async for loop over a stream that emitted ev: the first completo
\* chunk breaks the loop, every other chunk leaves resultado_final alone
DrenarStream(ev) ==
    IF PosicoesCompleto(ev) = {} THEN ResultadoVazio
    ELSE ev[CHOOSE i \in PosicoesCompleto(ev) : \A j \in PosicoesCompleto(ev) : i <= j]

\* the whole call, on a stream that has ended, raised or emitted completo
Carregar ==
    /\ resultado_final.pc = "idle"
    /\ svc.pc = "idle"
    /\ orq.pc \in {"done", "raised"}
    /\ resultado_final' =
         IF orq.pc = "raised" /\ PosicoesCompleto(orq.eventos) = {}
         THEN [pc |-> "levantou", valor |-> ResultadoVazio]
         ELSE [pc |-> "retornou", valor |-> DrenarStream(orq.eventos)]
    /\ UNCHANGED <<now, t0, cb, cache, ld, rl, rlLog, orq, svc, cor, cc, op, ipca_service, hc, rota, email_service>>

----------------------------------------------------------------------------
(* POST /transparencia/consultar-streaming, app/routes/transparencia.py.
   cancel_event is svc.cancel. *)

RotaInit ==
    [pc |-> "idle", escritos |-> <<>>, consulta_id |-> None, watcher |-> "nenhum",
     desconectado |-> FALSE, viu |-> FALSE, cancelamentos |-> 0, saida |-> ""]

\* 'id_consulta' in chunk
TemIdConsulta(chunk) == "id_consulta" \in DOMAIN chunk

\* if consulta_id: the guard of the watcher's cancel request
EnviaCancelamento_mut(consulta_id) == TRUE

EnviaCancelamento(consulta_id) == consulta_id # None

\* finally: disconnect_task.cancel() and await of the task
AposFinally_mut(w) == w

AposFinally(w) == IF w = "rodando" THEN "cancelada" ELSE w

\* the route is called for an admitted request: cancel_event and the
\* watcher task are created, the generator has not started
RotaRecebe ==
    /\ rota.pc = "idle"
    /\ svc = SvcInit
    /\ rlLog.n > 0 /\ rlLog.ultimo.status = 200
    /\ rota' = [rota EXCEPT !.pc = "criada", !.watcher = "rodando"]
    /\ UNCHANGED <<now, t0, cb, cache, ld, rl, rlLog, orq, svc, cor, cc, op, ipca_service, hc, resultado_final, email_service>>

\* the client goes away
Desconecta ==
    /\ rota.pc \in {"criada", "enviado"}
    /\ ~rota.desconectado
    /\ rota' = [rota EXCEPT !.desconectado = TRUE]
    /\ UNCHANGED <<now, t0, cb, cache, ld, rl, rlLog, orq, svc, cor, cc, op, ipca_service, hc, resultado_final, email_service>>

\* check_client_disconnected: the iteration that finds the client gone
\* (the others only sleep); post is the outcome of the cancel request
WatcherStep(post) ==
    /\ rota.watcher = "rodando"
    /\ ~svc.cancel
    /\ rota.desconectado
    /\ svc' = [svc EXCEPT !.cancel = TRUE]
    /\ rota' = [rota EXCEPT !.watcher = "saiu", !.viu = TRUE,
                            !.cancelamentos =
                                IF EnviaCancelamento(rota.consulta_id) /\ post \in {"ok", "excecao"}
                                THEN @ + 1 ELSE @]
    /\ UNCHANGED <<now, t0, cb, cache, ld, rl, rlLog, orq, cor, cc, op, ipca_service, hc, resultado_final, email_service>>

\* generate(), first resumption: the service runs to its first yield
\* (ServicoStart), then the loop body records the id, breaks on a set
\* signal or hands the chunk to the server
Gerar ==
    /\ rota.pc = "criada"
    /\ svc.pc = "idle" /\ orq.pc = "idle"
    /\ ChamadaFalha
    /\ LET evs == IF svc.cancel THEN EventosCanceladoNoInicio ELSE <<Erro>>
           chunk == evs[1]
           id == IF TemIdConsulta(chunk) /\ rota.consulta_id = None
                 THEN chunk.id_consulta ELSE rota.consulta_id
       IN  /\ svc' = [svc EXCEPT !.pc = "done", !.cancelNoInicio = svc.cancel, !.eventos = evs]
           /\ rota' =
                IF svc.cancel
                THEN [rota EXCEPT !.pc = "fim", !.saida = "break", !.consulta_id = id,
                                  !.watcher = AposFinally(rota.watcher)]
                ELSE [rota EXCEPT !.pc = "enviado", !.consulta_id = id,
                                  !.escritos = Append(@, chunk)]
    /\ UNCHANGED <<now, t0, cb, cache, ld, rl, rlLog, orq, cor, cc, op, ipca_service, hc, resultado_final, email_service>>

\* generate() resumed after the chunk was sent: the service generator
\* ends, the loop ends, finally runs
Retoma ==
    /\ rota.pc = "enviado"
    /\ rota' = [rota EXCEPT !.pc = "fim", !.saida = "esgotado", !.watcher = AposFinally(rota.watcher)]
    /\ UNCHANGED <<now, t0, cb, cache, ld, rl, rlLog, orq, svc, cor, cc, op, ipca_service, hc, resultado_final, email_service>>

\* the server drops the response of a client that went away: CancelledError
\* is thrown at the yield, except Exception does not catch it, finally runs
Interrompe ==
    /\ rota.pc = "enviado"
    /\ rota.desconectado
    /\ rota' = [rota EXCEPT !.pc = "fim", !.saida = "CancelledError", !.watcher = AposFinally(rota.watcher)]
    /\ UNCHANGED <<now, t0, cb, cache, ld, rl, rlLog, orq, svc, cor, cc, op, ipca_service, hc, resultado_final, email_service>>

----------------------------------------------------------------------------
(* EmailService, app/services/email_service.py.  A text is a sequence of
   one-character strings; "NUL" and "DEL" stand for the characters 0x00 and
   0x7F. *)

Minusculas == {"a","b","c","d","e","f","g","h","i","j","k","l","m","n","o","p","q","r","s","t","u","v","w","x","y","z"}
Maiusculas == {"A","C","I","J","P","R","S","T","V"}
Digitos == {"0","1","2","3","4","5","6","7","8","9"}
Controle == {"NUL", "DEL"}
Espaco == {" ", "\n", "\t"}
\* the character class \w
Palavra == Minusculas \cup Maiusculas \cup Digitos \cup {"_"}

\* re.IGNORECASE: the lower-case form of a character
Minuscula(c) ==
    CASE c = "A" -> "a" [] c = "C" -> "c" [] c = "I" -> "i" [] c = "J" -> "j"
      [] c = "P" -> "p" [] c = "R" -> "r" [] c = "S" -> "s" [] c = "T" -> "t"
      [] c = "V" -> "v" [] OTHER -> c

Primeiro(S) == CHOOSE x \in S : \A y \in S : x <= y
Derradeiro(S) == CHOOSE x \in S : \A y \in S : y <= x

\* the pattern's literal lit matches text at position i, ignoring case
CasaLiteral(text, i, lit) ==
    /\ i + Len(lit) - 1 <= Len(text)
    /\ \A k \in 1..Len(lit) : Minuscula(text[i + k - 1]) = lit[k]

\* the first position from i on whose character is not in S
FimDaCorrida(text, i, S) ==
    Primeiro({p \in i..(Len(text) + 1) : p = Len(text) + 1 \/ text[p] \notin S})

\* text[:max_length]
Limitar(text, max_length) ==
    SubSeq(text, 1, IF Len(text) < max_length THEN Len(text) ELSE max_length)

\* re.sub(r'[\x00-\x08\x0B\x0C\x0E-\x1F\x7F]', '', text)
SemControle(text) == SelectSeq(text, LAMBDA c : c \notin Controle)

\* where a match of  abre[^>]*>.*?fecha  starting at i ends, 0 if none
FimDoBloco(text, i, abre, fecha) ==
    IF ~CasaLiteral(text, i, abre) THEN 0
    ELSE LET gts == {j \in (i + Len(abre))..Len(text) : text[j] = ">"}
         IN  IF gts = {} THEN 0
             ELSE LET fs == {k \in (Primeiro(gts) + 1)..Len(text) : CasaLiteral(text, k, fecha)}
                  IN  IF fs = {} THEN 0 ELSE Primeiro(fs) + Len(fecha) - 1

\* re.sub(r'<tag[^>]*>.*?</tag>', '', text, IGNORECASE | DOTALL) from
\* position i: one pass from the left, the leftmost match is dropped and
\* the scan resumes after it
RECURSIVE RemoveBlocos(_, _, _, _)
RemoveBlocos(text, i, abre, fecha) ==
    LET ms == {k \in i..Len(text) : FimDoBloco(text, k, abre, fecha) > 0}
    IN  IF ms = {} THEN SubSeq(text, i, Len(text))
        ELSE SubSeq(text, i, Primeiro(ms) - 1)
             \o RemoveBlocos(text, FimDoBloco(text, Primeiro(ms), abre, fecha) + 1, abre, fecha)

\* re.sub(lit, '', text, IGNORECASE): one pass from the left
RECURSIVE RemoveLiteral(_, _, _)
RemoveLiteral(text, i, lit) ==
    LET ms == {k \in i..Len(text) : CasaLiteral(text, k, lit)}
    IN  IF ms = {} THEN SubSeq(text, i, Len(text))
        ELSE SubSeq(text, i, Primeiro(ms) - 1)
             \o RemoveLiteral(text, Primeiro(ms) + Len(lit), lit)

\* where a match of  on\w+\s*=  starting at i ends, 0 if none
FimDoHandler(text, i) ==
    IF ~CasaLiteral(text, i, <<"o", "n">>) THEN 0
    ELSE LET p == FimDaCorrida(text, i + 2, Palavra)
             q == FimDaCorrida(text, p, Espaco)
         IN  IF p > i + 2 /\ q <= Len(text) /\ text[q] = "=" THEN q ELSE 0

\* re.sub(r'on\w+\s*=', '', text, IGNORECASE)
RECURSIVE RemoveHandlers(_, _)
RemoveHandlers(text, i) ==
    LET ms == {k \in i..Len(text) : FimDoHandler(text, k) > 0}
    IN  IF ms = {} THEN SubSeq(text, i, Len(text))
        ELSE SubSeq(text, i, Primeiro(ms) - 1)
             \o RemoveHandlers(text, FimDoHandler(text, Primeiro(ms)) + 1)

\* str.strip()
Strip(text) ==
    LET ns == {i \in 1..Len(text) : text[i] \notin Espaco}
    IN  IF ns = {} THEN <<>> ELSE SubSeq(text, Primeiro(ns), Derradeiro(ns))

TagScript == <<"<","s","c","r","i","p","t">>
FimScript == <<"<","/","s","c","r","i","p","t",">">>
TagIframe == <<"<","i","f","r","a","m","e">>
FimIframe == <<"<","/","i","f","r","a","m","e",">">>
JavascriptProtocolo == <<"j","a","v","a","s","c","r","i","p","t",":">>

\* EmailService._sanitize_input(text, max_length)
sanitize_input(text, max_length) ==
    IF text = <<>> THEN <<>>
    ELSE Strip(RemoveHandlers(
             RemoveLiteral(
                 RemoveBlocos(
                     RemoveBlocos(SemControle(Limitar(text, max_length)), 1, TagScript, FimScript),
                     1, TagIframe, FimIframe),
                 1, JavascriptProtocolo),
             1))

\* EmailService._validate_email_format:
\* ^[a-zA-Z0-9._%+-]+@[a-zA-Z0-9.-]+\.[a-zA-Z]{2,}$
validate_email_format(email) ==
    LET letras == Minusculas \cup Maiusculas
        local == letras \cup Digitos \cup {".", "_", "%", "+", "-"}
        dominio == letras \cup Digitos \cup {".", "-"}
        \* $ also matches before one trailing newline
        fim == IF email # <<>> /\ email[Len(email)] = "\n" THEN Len(email) - 1 ELSE Len(email)
    IN  \E a \in 1..fim : \E d \in 1..fim :
            /\ email[a] = "@" /\ email[d] = "." /\ 1 < a /\ a + 1 < d /\ d + 2 <= fim
            /\ \A i \in 1..(a - 1) : email[i] \in local
            /\ \A i \in (a + 1)..(d - 1) : email[i] \in dominio
            /\ \A i \in (d + 1)..fim : email[i] \in letras

\* the (success, message) pair of a return
Par(sucesso, mensagem) == [fim |-> "retorno", sucesso |-> sucesso, mensagem |-> mensagem]

ExcecoesSMTP == {"SMTPAuthenticationError", "SMTPConnectError", "SMTPException",
                 "SMTPServerDisconnected"}

Tratar_mut(exc) ==
    IF exc = "SMTPAuthenticationError"
    THEN Par(FALSE, "Credenciais de email invalidas. Contate o administrador.")
    ELSE IF exc = "SMTPConnectError"
    THEN Par(FALSE, "Nao foi possivel conectar ao servidor de email.")
    ELSE IF exc \in ExcecoesSMTP
    THEN Par(FALSE, "Erro ao enviar email. Tente novamente mais tarde.")
    ELSE [fim |-> exc, sucesso |-> FALSE, mensagem |-> ""]

\* the except clauses of send_contact_email, in their order
Tratar(exc) ==
    IF exc = "SMTPAuthenticationError"
    THEN Par(FALSE, "Credenciais de email invalidas. Contate o administrador.")
    ELSE IF exc = "SMTPConnectError"
    THEN Par(FALSE, "Nao foi possivel conectar ao servidor de email.")
    ELSE IF exc \in ExcecoesSMTP
    THEN Par(FALSE, "Erro ao enviar email. Tente novamente mais tarde.")
    ELSE Par(FALSE, "Erro inesperado. Tente novamente mais tarde.")

\* not text or not text.strip()
EmBranco(text) == \A i \in 1..Len(text) : text[i] \in Espaco

\* the input validations of send_contact_email, in their order: the
\* message of the first one that fails, "" if all pass
Validar(name, email, message, sender_password) ==
    IF EmBranco(name) THEN "Nome e obrigatorio"
    ELSE IF Len(name) > 100 THEN "Nome muito longo (maximo 100 caracteres)"
    ELSE IF EmBranco(email) THEN "Email e obrigatorio"
    ELSE IF ~validate_email_format(email) THEN "Formato de email invalido"
    ELSE IF EmBranco(message) THEN "Mensagem e obrigatoria"
    ELSE IF Len(message) > 5000 THEN "Mensagem muito longa (maximo 5000 caracteres)"
    ELSE IF sender_password = "" THEN "Configuracao de email nao disponivel. Contate o administrador."
    ELSE ""

\* what the environment does to one delivery: the step that raises and the
\* exception it raises ("compor" is building the MIME message, before the
\* connection; "nenhuma" is a delivery without a failure)
Entregas ==
    {[etapa |-> "nenhuma", exc |-> ""], [etapa |-> "compor", exc |-> "UnicodeEncodeError"]}
    \cup {[etapa |-> "connect", exc |-> e] : e \in {"SMTPConnectError", "TimeoutError", "OSError"}}
    \cup {[etapa |-> "starttls", exc |-> e] : e \in {"SMTPException", "SMTPServerDisconnected"}}
    \cup {[etapa |-> "login", exc |-> e] : e \in {"SMTPAuthenticationError", "SMTPException"}}
    \cup {[etapa |-> "send_message", exc |-> e] : e \in {"SMTPException", "SMTPServerDisconnected", "OSError"}}

\* EmailService.send_contact_email: the outcome, the number of SMTP
\* connections it opened and the sanitized fields it composed
send_contact_email(name, email, message, sender_password, entrega) ==
    LET erro == Validar(name, email, message, sender_password)
        limpo == [name |-> sanitize_input(name, 100),
                  email |-> sanitize_input(email, 100),
                  message |-> sanitize_input(message, 5000)]
        nada == [name |-> <<>>, email |-> <<>>, message |-> <<>>]
    IN  IF erro # ""
        THEN [ret |-> Par(FALSE, erro), conexoes |-> 0, limpo |-> nada]
        ELSE IF entrega.etapa = "compor"
        THEN [ret |-> Tratar(entrega.exc), conexoes |-> 0, limpo |-> limpo]
        ELSE IF entrega.etapa = "nenhuma"
        THEN [ret |-> Par(TRUE, "Email enviado com sucesso!"), conexoes |-> 1, limpo |-> limpo]
        ELSE [ret |-> Tratar(entrega.exc), conexoes |-> 1, limpo |-> limpo]

EmailService(sender_password) ==
    [pc |-> "pronto", sender_password |-> sender_password, op |-> "",
     name |-> <<>>, email |-> <<>>, message |-> <<>>, max_length |-> 0,
     entrega |-> [etapa |-> "nenhuma", exc |-> ""],
     ret |-> Par(FALSE, ""), conexoes |-> 0,
     limpo |-> [name |-> <<>>, email |-> <<>>, message |-> <<>>]]

EmailInit == EmailService("")

\* texts used as inputs
Repete(c, n) == [i \in 1..n |-> c]
Java == <<"j","a","v","a">>
ScriptDoisPontos == <<"s","c","r","i","p","t",":">>
JavaScriptMisto == <<"J","a","v","a","S","c","r","i","p","t",":">>
HandlerOnx == <<"o","n","x"," ","=">>
Fragmentos ==
    {Java, ScriptDoisPontos, JavascriptProtocolo, JavaScriptMisto, HandlerOnx,
     <<"<","S","C","R","I","P","T",">">>, FimScript, <<"NUL">>, <<" ">>}
TextosParaSanitizar ==
    {<<>>} \cup Fragmentos
    \cup {a \o b : a \in Fragmentos, b \in Fragmentos}
    \cup {a \o b \o c : a \in {Java, <<" ">>}, b \in Fragmentos, c \in {ScriptDoisPontos, <<" ">>}}
    \cup {Repete("a", 101)}
Ana == <<"A","n","a">>
Nomes == {<<>>, <<" ">>, Ana, Repete("a", 100), Repete("a", 101),
          Java \o JavascriptProtocolo \o ScriptDoisPontos}
Emails == {<<>>, <<" ">>, <<"a","@","b">>, <<"a","@","b",".","c","o">>,
           <<"a","@","b",".","c","o","\n">>}
Mensagens == {<<>>, <<"\n">>, <<"o","i">>, Repete("x", 5001),
              Java \o HandlerOnx \o ScriptDoisPontos}
Senhas == {"", "segredo"}

\* one call of send_contact_email
Envia(name, email, message, entrega) ==
    /\ email_service.pc = "pronto"
    /\ LET r == send_contact_email(name, email, message, email_service.sender_password, entrega)
       IN  email_service' = [email_service EXCEPT
               !.pc = "respondeu", !.op = "send_contact_email",
               !.name = name, !.email = email, !.message = message,
               !.entrega = entrega, !.ret = r.ret, !.conexoes = r.conexoes,
               !.limpo = r.limpo]
    /\ UNCHANGED <<now, t0, cb, cache, ld, rl, rlLog, orq, svc, cor, cc, op, ipca_service, hc, resultado_final, rota>>

\* one call of _sanitize_input
Sanitiza(text, max_length) ==
    /\ email_service.pc = "pronto"
    /\ email_service' = [email_service EXCEPT
           !.pc = "respondeu", !.op = "_sanitize_input",
           !.message = text, !.max_length = max_length,
           !.limpo = [@ EXCEPT !.message = sanitize_input(text, max_length)]]
    /\ UNCHANGED <<now, t0, cb, cache, ld, rl, rlLog, orq, svc, cor, cc, op, ipca_service, hc, resultado_final, rota>>


----------------------------------------------------------------------------
(* Initial states *)

\* process start instants: 2024-02-20 12:00 and 2024-03-03 12:00
StartTimes == {50 * SecondsPerDay + 43200, 62 * SecondsPerDay + 43200}

\* ages (in days) of a cache file left behind by an earlier run
CacheAges == {1, 9, 35}

\* the cache file found at process start
InitCaches(t) ==
    {NoFile, Corrupt, Doc({}, InfoCacheFile, t - SecondsPerDay), Doc(SerieA, InfoCacheFile, BadDate)}
    \cup {Doc(SerieA, InfoCacheFile, t - a * SecondsPerDay) : a \in CacheAges}

\* the module-level singletons right after import
InitObjetos ==
    /\ cb = CircuitBreakerInit
    /\ ld = LoadIdle
    /\ rl = LimiterInit
    /\ rlLog = LogInit
    /\ orq = OrqInit
    /\ svc = SvcInit

\* no call under examination
SemChamadas ==
    /\ cor = CorInit
    /\ cc = CcInit
    /\ op = OpInit
    /\ ipca_service = IPCAService(IpcaVazio, InfoErro)
    /\ hc = HealthInit
    /\ resultado_final = CargaInit
    /\ rota = RotaInit
    /\ email_service = EmailInit

Init ==
    /\ t0 \in StartTimes
    /\ now = t0
    /\ cache \in InitCaches(t0)
    /\ InitObjetos
    /\ SemChamadas

\* a process started on 2024-02-20 without a cache file
InitSemCache ==
    /\ t0 = 50 * SecondsPerDay + 43200
    /\ now = t0
    /\ cache = NoFile
    /\ InitObjetos
    /\ SemChamadas

\* a service built on one of the series, about to be called once
InitServico ==
    /\ t0 = 50 * SecondsPerDay + 43200
    /\ now = t0
    /\ cache = NoFile
    /\ InitObjetos
    /\ cor = CorInit
    /\ cc = CcInit
    /\ op = OpInit
    /\ ipca_service \in {IPCAService(d, InfoDaSerie(d)) : d \in SeriesDoServico}
    /\ hc = HealthInit
    /\ resultado_final = CargaInit
    /\ rota = RotaInit
    /\ email_service = EmailInit

\* an EmailService built with or without a sender credential, about to be
\* called once
InitEmail ==
    /\ t0 = 50 * SecondsPerDay + 43200
    /\ now = t0
    /\ cache = NoFile
    /\ InitObjetos
    /\ cor = CorInit
    /\ cc = CcInit
    /\ op = OpInit
    /\ ipca_service = IPCAService(IpcaVazio, InfoErro)
    /\ hc = HealthInit
    /\ resultado_final = CargaInit
    /\ rota = RotaInit
    /\ email_service \in {EmailService(p) : p \in Senhas}

NextEmail ==
    \/ \E name \in Nomes, email \in Emails, message \in Mensagens, entrega \in Entregas :
           Envia(name, email, message, entrega)
    \/ \E text \in TextosParaSanitizar, max_length \in {100, 5000} : Sanitiza(text, max_length)
SpecEmail == InitEmail /\ [][NextEmail]_vars

\* a process about to call one cache operation
InitCache ==
    /\ t0 \in TemposCache
    /\ now = t0
    /\ cache \in ArquivosCache(t0)
    /\ InitObjetos
    /\ SemChamadas

\* the same process, about to make one of the calls of EntradasCorrecao
InitCorrecao ==
    /\ t0 = 50 * SecondsPerDay + 43200
    /\ now = t0
    /\ cache = NoFile
    /\ InitObjetos
    /\ cor \in EntradasCorrecao
    /\ cc = CcInit
    /\ op = OpInit
    /\ ipca_service = IPCAService(IpcaVazio, InfoErro)
    /\ hc = HealthInit
    /\ resultado_final = CargaInit
    /\ rota = RotaInit
    /\ email_service = EmailInit

----------------------------------------------------------------------------
(* Specifications *)

NextLoader ==
    \/ \E force \in BOOLEAN : LoadStart(force)
    \/ ForcarStart
    \/ \E out \in ProviderSeries : AttemptOk(out)
    \/ AttemptFail
    \/ Sleep
    \/ ResetBreaker
    \/ LimparCache
    \/ Tick

SpecLoader == Init /\ [][NextLoader]_vars

NextLimiter ==
    \/ \E req \in Requests : CheckRateLimit(req)
    \/ Cleanup
    \/ ResetLimiter
    \/ TickLimiter

SpecLimiter == InitSemCache /\ [][NextLimiter]_vars

\* the limiter inside a running event loop: the sweep task is scheduled when
\* its sleep is over, and time passes; requests and resets arrive during the
\* first MaxRunLimiter seconds
NextSweep ==
    \/ now - t0 <= MaxRunLimiter /\ \E req \in Requests : CheckRateLimit(req)
    \/ Cleanup
    \/ now - t0 <= MaxRunLimiter /\ ResetLimiter
    \/ TickSweep

SpecSweep ==
    InitSemCache /\ [][NextSweep]_vars /\ WF_vars(Cleanup) /\ WF_vars(TickSweep)

NextStream ==
    \/ \E tipo \in {"mensal", "anual"}, serie \in IpcaSeries, r \in RespostasIniciais :
          Start(tipo, serie, r)
    \/ SyncStep
    \/ \E r \in RespostasStatus : Poll(r)
    \/ AnoStep
    \/ Apos
    \/ FinalStep
    \/ SetCancel
    \/ ServicoStart

SpecStream == InitSemCache /\ [][NextStream]_vars

NextConcorrente ==
    \E th \in Threads :
        \/ ChamarCarregar(th)
        \/ \E dados \in Series \cup {{}}, forcar \in BOOLEAN : ChamarSalvar(th, dados, forcar)
        \/ ChamarLimpar(th)
        \/ Adquirir(th)
        \/ LerArquivo(th)
        \/ Truncar(th)
        \/ Gravar(th)
        \/ Remover(th)

SpecConcorrente == InitSemCache /\ [][NextConcorrente]_vars

NextCache ==
    \/ \E dados \in Series \cup {{}}, forcar \in BOOLEAN : Salvar(dados, forcar)
    \/ Verificar

SpecCache == InitCache /\ [][NextCache]_vars

NextServico ==
    \/ ChamaTodosDados
    \/ \E mes \in MesesTexto, ano \in AnosTexto : ChamaValorPorData(mes, ano)
    \/ \E ano \in AnosTexto, meses \in ListasDeMeses : ChamaMediaAnual(ano, meses)
    \/ \E anos \in SUBSET AnosTexto, meses \in ListasDeMeses :
            ChamaMediasMultiplosAnos(anos, meses)
    \/ \E valor \in Valores, mi \in MesesTexto, ai \in AnosTexto,
          mf \in MesesTexto, af \in AnosTexto :
            ChamaCorrigirValor(valor, mi, ai, mf, af)

SpecServico == InitServico /\ [][NextServico]_vars

NextSaude ==
    \/ \E req \in Requests : RequisicaoApi(req)
    \/ \E gs \in GetIpcaServiceOutcomes, st \in ObterStatusServicoOutcomes :
          RequisicaoHealth(gs, st)
    \/ TickLimiter

SpecSaude == InitSemCache /\ [][NextSaude]_vars

NextCarregar ==
    \/ \E tipo \in {"mensal", "anual"}, serie \in IpcaSeries, r \in RespostasIniciais :
          Start(tipo, serie, r)
    \/ SyncStep
    \/ \E r \in RespostasStatus : Poll(r)
    \/ AnoStep
    \/ Apos
    \/ FinalStep
    \/ Carregar

SpecCarregar == InitSemCache /\ [][NextCarregar]_vars

NextRota ==
    \/ \E req \in Requests : RequisicaoApi(req)
    \/ TickLimiter
    \/ RotaRecebe
    \/ Desconecta
    \/ \E post \in {"ok", "excecao"} : WatcherStep(post)
    \/ Gerar
    \/ Retoma
    \/ Interrompe

SpecRota == InitSemCache /\ [][NextRota]_vars

NextCorrecao == Corrigir

SpecCorrecao == InitCorrecao /\ [][NextCorrecao]_vars

----------------------------------------------------------------------------
(* Properties of the loader and its circuit breaker *)

\* a step that starts a load() call
IniciaLoad == ld'.n = ld.n + 1 /\ ld'.kind = "load"

\* a step in which a load() call returns
TerminaLoad == ld'.kind = "load" /\ ld'.pc = "done" /\ (ld.pc # "done" \/ ld'.n # ld.n)

\* C1: from CLOSED, a recorded failure that brings the count to 1 or 2
\* leaves the breaker CLOSED, and the one that brings it to 3 opens it, with
\* failures = 3.
C1_AbreNaTerceiraFalha ==
    [][(cb.state = "CLOSED" /\ cb'.failures = cb.failures + 1)
         => IF cb'.failures < 3
            THEN cb'.state = "CLOSED"
            ELSE cb'.state = "OPEN" /\ cb'.failures = 3]_vars

C1_Witness ==
    /\ cb.state = "OPEN" /\ cb.failures = 3
    /\ ld.pc = "done" /\ ld.fails = 3 /\ ld.n = 1

\* C2: a load() that starts while the breaker is OPEN, less than 300 seconds
\* after the last failure, and that is not answered from a fresh cache,
\* returns at once without any provider call: the cached series if the cache
\* has data, otherwise an empty series whose message names the state OPEN.
C2_BloqueadoSemChamada ==
    [][(/\ IniciaLoad
        /\ cb.state = "OPEN"
        /\ now - cb.last_failure_time < 300
        /\ ld'.result.src # "cache")
         => /\ ld'.pc = "done"
            /\ ld'.calls = 0
            /\ IF cache.kind = "doc" /\ cache.dados # {}
               THEN ld'.result.dados = cache.dados
               ELSE ld'.result.dados = {} /\ ld'.result.msg.estado = "OPEN"]_vars

C2_Witness ==
    /\ ld.pc = "done" /\ ld.kind = "load" /\ ld.calls = 0
    /\ cb.state = "OPEN" /\ now - cb.last_failure_time < 300
    /\ ld.result.src = "cb_cache"

\* C3: every recorded success (by a provider call that returned, or by the
\* manual reset) leaves the breaker CLOSED with failures = 0 and no
\* last-failure time, whatever state it was in; so a load() whose fetch
\* succeeds after the open timeout ends with the breaker CLOSED.
C3_SucessoFecha ==
    [][(ld'.succs = ld.succs + 1 \/ (ld' = ld /\ cb' # cb))
         => (cb'.state = "CLOSED" /\ cb'.failures = 0 /\ cb'.last_failure_time = None)]_vars

C3_Witness ==
    /\ ld.pc = "done" /\ ld.kind = "load" /\ ld.succs = 1 /\ ld.fails = 1
    /\ ld.desde = "OPEN"
    /\ now - t0 >= timeout_seconds
    /\ cb = CircuitBreakerInit

\* C4: a load() that returns while the cache file holds a non-empty series
\* returns a non-empty series (so an empty result is returned only when no
\* cache with data exists), and unless a provider call succeeded the series
\* returned is the cached one.
C4_CacheGaranteDados ==
    [][(TerminaLoad /\ cache.kind = "doc" /\ cache.dados # {})
         => /\ ld'.result.dados # {}
            /\ (ld'.succs = 0 => ld'.result.dados = cache.dados)]_vars

C4_Witness ==
    /\ ld.pc = "done" /\ ld.kind = "load" /\ ld.fails = 3
    /\ ld.result.src = "fallback" /\ ld.result.dados # {}

\* C5: load(force_refresh = false) with a cache that has data and needs no
\* refresh returns the cached series, makes no provider call and leaves the
\* breaker and the cache file as they were.
C5_CacheAtualizadoSemEfeito ==
    [][(/\ IniciaLoad /\ ~ld'.force
        /\ cache.kind = "doc" /\ cache.dados # {}
        /\ ~verificar_atualizacao_necessaria(cache, now))
         => /\ ld'.pc = "done" /\ ld'.calls = 0
            /\ ld'.result.dados = cache.dados
            /\ cb' = cb /\ cache' = cache]_vars

C5_Witness ==
    /\ ld.pc = "done" /\ ld.kind = "load" /\ ~ld.force
    /\ ld.result.src = "cache" /\ ld.calls = 0
    /\ cb.state = "OPEN"

\* C6: one retrying fetch makes at most 3 provider calls and none after a
\* success; every failed call records exactly one failure and the successful
\* one records the success; a sleep happens only between two calls, so after
\* three failures there were exactly two sleeps and the fetch returns an
\* empty series with the error message.
C6_FetchInv ==
    ld.kind # "none" =>
        /\ ld.calls <= 3 /\ ld.succs <= 1
        /\ ld.calls = ld.fails + ld.succs
        /\ (ld.succs = 1 => ld.pc = "done")
        /\ (ld.pc = "done" /\ ld.calls > 0 => ld.sleeps = ld.calls - 1)
        /\ (ld.pc # "done" => ld.sleeps <= ld.calls)
        /\ (ld.fails = 3 => /\ ld.pc = "done" /\ ld.sleeps = 2
                            /\ ld.api.dados = {} /\ ld.api.msg.txt = InfoErro)

C6_TentativasLimitadas ==
    /\ []C6_FetchInv
    /\ [][/\ (ld'.fails = ld.fails + 1 =>
                 cb'.failures = cb.failures + 1 /\ cb'.last_failure_time = now)
          /\ (ld'.succs = ld.succs + 1 => cb' = CircuitBreakerInit)
          /\ (ld'.sleeps = ld.sleeps + 1 => ld.pc = "sleep" /\ ld'.pc = "attempt")]_vars

C6_Witness ==
    ld.pc = "done" /\ ld.fails = 3 /\ ld.calls = 3 /\ ld.sleeps = 2 /\ ld.api.dados = {}

----------------------------------------------------------------------------
(* Properties of the rate limiter *)

\* the accepted requests of ip (since the last reset) less than 60 seconds
\* before t
AceitosNaJanela(ip, t) == Len(SelectSeq(rlLog.aceitos[ip], LAMBDA ts : t - ts < 60))

\* C7: a gated request of client c at time t gets 429 exactly when c already
\* has requests_per_minute accepted requests less than 60 seconds old, and is
\* otherwise accepted and its timestamp recorded; the lists of the other
\* clients are not touched; and no client ever has more than
\* requests_per_minute accepted requests within 60 seconds.
C7_JanelaPorCliente ==
    /\ [](\A ip \in ClientIPs : \A i \in 1..Len(rlLog.aceitos[ip]) :
            Cardinality({j \in 1..i : rlLog.aceitos[ip][i] - rlLog.aceitos[ip][j] < 60})
                <= requests_per_minute)
    /\ [][rlLog'.n = rlLog.n + 1 =>
            LET c == rlLog'.ultimo.ip IN
            /\ (rlLog'.ultimo.status = 429) = (AceitosNaJanela(c, now) >= requests_per_minute)
            /\ rlLog'.ultimo.status = 200 =>
                  /\ c \in DOMAIN rl'.requests
                  /\ rl'.requests[c] = Append(Lista(rl.requests, c), now)
            /\ \A o \in ClientIPs \ {c} :
                  Lista(rl'.requests, o) = Lista(rl.requests, o)]_vars

\* the third request of one client inside the window was rejected while the
\* other client, which sent as many, is still served
C7_Witness ==
    /\ rlLog.ultimo.status = 200 /\ rlLog.ultimo.ip = "10.0.0.2"
    /\ Len(rlLog.aceitos["10.0.0.1"]) = requests_per_minute
    /\ AceitosNaJanela("10.0.0.1", now) = requests_per_minute
    /\ rlLog.n = 2 * requests_per_minute + 1

----------------------------------------------------------------------------
(* Properties of the transparency stream *)

Terminais == {"completo", "cancelado", "erro"}

\* the stream answered a synchronous response that carries dados_por_ano
RespostaSincronaComAnos == orq.modo = "sincrono" /\ orq.k # None

\* C8: for a synchronous crawler response covering K years, the finished
\* stream is exactly K parcial events followed by exactly one completo
\* event, with nothing after it.
C8_SincronoKParciaisUmCompleto ==
    (RespostaSincronaComAnos /\ orq.pc \in {"done", "raised"}) =>
        /\ Len(orq.eventos) = orq.k + 1
        /\ \A i \in 1..orq.k : orq.eventos[i].status = "parcial"
        /\ orq.eventos[orq.k + 1].status = "completo"

\* C9: a stream started with the cancellation signal already set produces
\* zero events, and a cancelado event is never followed by another event.
C9_CanceladoAntesSemEventos ==
    /\ (svc.pc = "done" /\ svc.cancelNoInicio) => svc.eventos = <<>>
    /\ \A i \in 1..Len(svc.eventos) :
          svc.eventos[i].status = "cancelado" => i = Len(svc.eventos)

\* a terminal event occurs only as the last event of the sequence
TerminalSoNoFim(ev) == \A i \in 1..Len(ev) : ev[i].status \in Terminais => i = Len(ev)

\* C10: in every event sequence produced for one streaming query (by the
\* orchestrator or by the service), a terminal event (completo, cancelado
\* or erro) occurs at most once and is the last event.
C10_TerminalUnicoEUltimo == TerminalSoNoFim(orq.eventos) /\ TerminalSoNoFim(svc.eventos)

\* a polled query that emitted two parcial events and then completo
C10_Witness ==
    /\ orq.pc = "done"
    /\ orq.modo = "assincrono"
    /\ Len(orq.eventos) >= 3
    /\ orq.eventos[Len(orq.eventos)].status = "completo"
    /\ orq.eventos[1].status = "parcial"

----------------------------------------------------------------------------
(* Properties of the monetary correction *)

\* how many positions of a sequence hold the value v
Ocorrencias(seq, v) == Cardinality({i \in DOMAIN seq : seq[i] = v})

Originais(nao) == [i \in DOMAIN nao |-> nao[i].item_original]

\* records of the call without any valid monetary field
SemCampo(dados) == {i \in DOMAIN dados : ~dados[i].campo}

\* every record with a monetary field has a year and an index to correct it
DemaisCorrigiveis ==
    \A i \in DOMAIN cor.dados :
        cor.dados[i].campo =>
            /\ AnoDoItem(cor.dados[i], cor.ano) # 0
            /\ \E m \in 1..12 : <<m, AnoDoItem(cor.dados[i], cor.ano)>> \in cor.serie
            /\ (cor.tipo = "mensal" =>
                  <<MesDoItem(cor.dados[i]), AnoDoItem(cor.dados[i], cor.ano)>> \in cor.serie)

\* the two lists partition the input and every unprocessed entry has a reason
ListasParticionam ==
    /\ Len(cor.corrigidos) + Len(cor.nao) = Len(cor.dados)
    /\ \A r \in RegistrosDeEntrada :
          Ocorrencias(cor.dados, r) =
              Ocorrencias(cor.corrigidos, r) + Ocorrencias(Originais(cor.nao), r)
    /\ \A i \in DOMAIN cor.nao : cor.nao[i].motivo # ""

\* C11: for every input list of N records the call returns a corrected list
\* and an unprocessed list that partition the input, every unprocessed entry
\* carrying the original record and a non-empty reason; when M records lack
\* a monetary field and the others are correctable there are N-M corrected
\* records and M unprocessed entries.
C11_NadaPerdido ==
    cor.pc # "entrada" =>
        /\ cor.pc = "retornou"
        /\ ListasParticionam
        /\ (DemaisCorrigiveis =>
              /\ Len(cor.nao) = Cardinality(SemCampo(cor.dados))
              /\ Len(cor.corrigidos) = Len(cor.dados) - Cardinality(SemCampo(cor.dados)))

----------------------------------------------------------------------------
(* Properties of the cache under concurrent callers *)

NaRegiao == {th \in Threads : cc.thr[th].pc \in Regiao}

\* C12: under any interleaving of concurrent load, save and clear calls at
\* most one thread is at a point that touches the file and it holds the
\* lock, from the read of save through its write; the file is incomplete
\* only while its single writer is between open and the end of the dump, and
\* no read ever meets an incomplete file.
C12_UmPorVezNoArquivo ==
    /\ Cardinality(NaRegiao) <= 1
    /\ \A th \in NaRegiao : cc.lock = th
    /\ (cache = Incompleto => \E th \in Threads : cc.thr[th].pc = "s_dump")
    /\ \A th \in Threads : ~cc.thr[th].viuParcial

\* a save is halfway through its write while another thread waits to read
C12_Witness ==
    /\ cache = Incompleto
    /\ \E th \in Threads : cc.thr[th].pc = "s_dump" /\ ~cc.thr[th].forcar
    /\ \E th \in Threads : cc.thr[th].pc = "l_lock"

----------------------------------------------------------------------------
(* Properties of single cache calls *)

\* the series stored in the file the call found, if it holds a document
SerieGuardadaIgual == op.antes.kind = "doc" /\ op.antes.dados = op.dados

InicioDoMes(u, t) ==
    /\ DateOf(t).day \in 1..5
    /\ <<DateOf(u).month, DateOf(u).year>> # <<DateOf(t).month, DateOf(t).year>>

\* the cases of the claim other than age, for the file the call found
SemCacheUtil ==
    \/ op.antes.kind # "doc"
    \/ op.antes.dados = {}
    \/ op.antes.ultima_atualizacao = BadDate

----------------------------------------------------------------------------
(* Properties of the IPCA service *)

Respondeu(nome) == ipca_service.pc = "respondeu" /\ ipca_service.op = nome

PeriodoInicial == Chave(ipca_service.args.mes, ipca_service.args.ano)
PeriodoFinal == Chave(ipca_service.args.mes_final, ipca_service.args.ano_final)
PeriodosExistem == PeriodoInicial \in DOMAIN ipca_service.ipca_dict /\ PeriodoFinal \in DOMAIN ipca_service.ipca_dict

Corrigiu == Respondeu("corrigir_valor") /\ ipca_service.ret.fim = "retorno"

C17_AusenteDa404 ==
    /\ Respondeu("obter_valor_por_data") =>
          IF PeriodoInicial \in DOMAIN ipca_service.ipca_dict
          THEN ipca_service.ret.fim = "retorno"
          ELSE ipca_service.ret.fim = "HTTPException" /\ ipca_service.ret.status_code = 404
    /\ Respondeu("corrigir_valor") =>
          /\ ipca_service.ret.fim \in {"retorno", "HTTPException"}
          /\ ~PeriodosExistem => ipca_service.ret.fim = "HTTPException" /\ ipca_service.ret.status_code = 404
          /\ (PeriodosExistem /\ ipca_service.args.valor >= 0
                /\ (ipca_service.ipca_dict[PeriodoInicial] <= 0 \/ ipca_service.ipca_dict[PeriodoFinal] <= 0))
             => ipca_service.ret.fim = "HTTPException" /\ ipca_service.ret.status_code = 400

\* the lookup of 13/2020 in a loaded series ended in 404
C17_Witness ==
    /\ Respondeu("obter_valor_por_data")
    /\ ipca_service.ipca_dict = IpcaCarregado
    /\ PeriodoInicial = "13/2020"
    /\ ipca_service.ret = HTTPException(404)

\* a correction from a period of index 0 ended in 400
C17_WitnessIndiceZero ==
    /\ Respondeu("corrigir_valor")
    /\ PeriodosExistem /\ ipca_service.args.valor > 0
    /\ ipca_service.ipca_dict[PeriodoInicial] = 0
    /\ ipca_service.ret = HTTPException(400)

\* C18: with an empty loaded series every data-returning operation of the
\* service fails with HTTP 503.
C18_VazioDa503 ==
    (ipca_service.pc = "respondeu" /\ ipca_service.ipca_dict = IpcaVazio) =>
        (ipca_service.ret.fim = "HTTPException" /\ ipca_service.ret.status_code = 503)

----------------------------------------------------------------------------
(* Properties of GET /health *)

DependenciaFalhou == hc.gs = "excecao" \/ hc.st.fim # "retorno"

----------------------------------------------------------------------------
(* Properties of carregar_dados_portal_transparencia *)

\* C20: whenever carregar_dados_portal_transparencia returns a value, the
\* value is an event with status completo, never a parcial or erro event
\* and never an empty result.
C20_SoRetornaCompleto ==
    resultado_final.pc = "retornou" =>
        /\ resultado_final.valor # ResultadoVazio
        /\ resultado_final.valor.status = "completo"

----------------------------------------------------------------------------
(* Properties of the streaming route *)

UltimoEscrito == rota.escritos[Len(rota.escritos)]

\* the query of the finished response was cancelled (the service saw the
\* signal) or failed with an error
ConsultaCancelada == rota.pc = "fim" /\ svc.pc = "done" /\ svc.eventos = <<Cancelado>>
ConsultaComErro == rota.pc = "fim" /\ svc.pc = "done" /\ svc.eventos = <<Erro>>

\* C21: when the query is cancelled the last event written to the SSE
\* stream has status cancelado, and when it fails with an error the last
\* event written has status erro.
C21_UltimoEventoCanceladoOuErro ==
    /\ ConsultaCancelada =>
          (rota.escritos # <<>> /\ UltimoEscrito.status = "cancelado")
    /\ ConsultaComErro =>
          (rota.escritos # <<>> /\ UltimoEscrito.status = "erro")

\* the step in which the watcher finds the client gone
WatcherViu == rota'.viu /\ ~rota.viu

C28_WatcherParado ==
    rota.pc = "fim" => rota.watcher \in {"saiu", "cancelada"}

\* the stream ended after its erro event with the client still connected,
\* and finally cancelled the running watcher
C28_Witness ==
    /\ rota.pc = "fim" /\ rota.saida = "esgotado"
    /\ ~rota.desconectado
    /\ rota.escritos = <<Erro>>
    /\ rota.watcher = "cancelada"

----------------------------------------------------------------------------
(* Properties of the asynchronous branch of the orchestrator *)

UltimoEvento == orq.eventos[Len(orq.eventos)]

\* an asynchronous stream that ended otherwise than by the backend's
\* "concluido" or an exception: the no-progress budget ran out
FimPorTimeout ==
    /\ orq.modo = "assincrono" /\ orq.pc = "done"
    /\ orq.eventos # <<>>
    /\ ~(UltimoEvento.status = "completo" /\ ~UltimoEvento.obs)

\* C24: in an asynchronous query polling stops once 60 consecutive polls
\* brought no new year, and the stream then ends with a completo event
\* flagged with an observacao, also when nothing was collected.
C24_TimeoutApos60 ==
    FimPorTimeout =>
        /\ orq.tentativas_sem_mudanca = 60
        /\ UltimoEvento.status = "completo"
        /\ UltimoEvento.obs

\* the years a status answer names
AnosDaResposta(r) ==
    {r.dpa[i].ano : i \in {j \in DOMAIN r.dpa : r.dpa # Ausente}}
    \cup {r.parc[i].ano : i \in {j \in DOMAIN r.parc : r.parc # Ausente}}

\* the step appends the aggregated completo event of an asynchronous
\* query, without the timeout observacao
EmiteCompleto ==
    /\ orq.modo = "assincrono"
    /\ Len(orq'.eventos) = Len(orq.eventos) + 1
    /\ orq'.eventos[Len(orq'.eventos)].status = "completo"
    /\ ~orq'.eventos[Len(orq'.eventos)].obs

\* C25: apart from the no-progress timeout, the completo event of an
\* asynchronous query is emitted only when all years the backend expects
\* have been processed, or the backend reports "concluido" and at least one
\* year has been processed or three consecutive no-progress polls elapsed.
C25_CompletoSoQuandoPronto ==
    [][EmiteCompleto =>
        \/ /\ AnosDaResposta(orq.resp) # {}
           /\ AnosDaResposta(orq.resp) \subseteq orq.anos_ja_processados
        \/ /\ orq.resp.status = "concluido"
           /\ \/ orq.anos_ja_processados # {}
              \/ orq.tentativas_sem_mudanca >= 3]_vars

\* C26: for an asynchronous crawler response the first event of the stream
\* is an iniciando event, emitted before the first poll and before any
\* parcial event.
C26_IniciandoPrimeiro ==
    (orq.modo = "assincrono" /\ orq.pc # "idle") =>
        (orq.eventos # <<>> /\ orq.eventos[1].status = "iniciando")

----------------------------------------------------------------------------
(* The HALF_OPEN trial *)

\* the step is one provider call of a load that went through is_open()
TentativaDoProvedor ==
    /\ ld.kind = "load" /\ ld.pc = "attempt"
    /\ ld'.calls = ld.calls + 1

\* the breaker is OPEN and timeout_seconds have not elapsed since the last
\* failure
AbertoEmEspera ==
    /\ cb.state = "OPEN"
    /\ cb.last_failure_time # None
    /\ now - cb.last_failure_time < timeout_seconds

\* C23: after is_open() flipped the breaker to HALF_OPEN exactly one trial
\* call is permitted: once the trial failed no provider attempt is made
\* until timeout_seconds have elapsed again since that failure (a load that
\* consulted is_open() never calls the provider while the breaker is OPEN
\* and still waiting).
C23_UmaTentativaEmHalfOpen ==
    [][TentativaDoProvedor => ~AbertoEmEspera]_vars

----------------------------------------------------------------------------
(* Properties of the email service *)

Enviou == email_service.pc = "respondeu" /\ email_service.op = "send_contact_email"

\* a field fails the input validation, or no sender credential is configured
EntradaRecusada ==
    \/ EmBranco(email_service.name) \/ Len(email_service.name) > 100
    \/ EmBranco(email_service.email) \/ ~validate_email_format(email_service.email)
    \/ EmBranco(email_service.message) \/ Len(email_service.message) > 5000
    \/ email_service.sender_password = ""

\* C22: send_contact_email never raises: every outcome, an SMTP or an
\* unexpected failure included, is returned as a (success, message) pair;
\* and when the input validation fails or no sender credential is
\* configured it returns failure before any SMTP connection is opened.
C22_EnvioNuncaLevanta ==
    Enviou =>
        /\ email_service.ret.fim = "retorno"
        /\ email_service.ret.sucesso \in BOOLEAN
        /\ email_service.ret.mensagem # ""
        /\ email_service.ret.sucesso =>
               (email_service.entrega.etapa = "nenhuma" /\ email_service.conexoes = 1)
        /\ EntradaRecusada =>
               (~email_service.ret.sucesso /\ email_service.conexoes = 0)

\* a valid submission whose send_message raised an exception that is not an
\* SMTP one: the failure came back as a pair
C22_Witness ==
    /\ Enviou /\ ~EntradaRecusada
    /\ email_service.entrega = [etapa |-> "send_message", exc |-> "OSError"]
    /\ email_service.conexoes = 1
    /\ email_service.ret = Par(FALSE, "Erro inesperado. Tente novamente mais tarde.")

ContemJavascript(text) ==
    \E i \in 1..Len(text) : CasaLiteral(text, i, JavascriptProtocolo)

\* C29: for every input text the output of _sanitize_input contains no
\* occurrence of "javascript:" in any letter case.
C29_SemJavascript ==
    (email_service.pc = "respondeu" /\ email_service.op = "_sanitize_input") =>
        ~ContemJavascript(email_service.limpo.message)

----------------------------------------------------------------------------
(* The limiter's sweep *)

\* the limiter holds an entry for ip and none of its timestamps lies in the
\* trailing 60 seconds
Velha(ip) ==
    /\ rl.initialized
    /\ ip \in DOMAIN rl.requests
    /\ Recentes(rl.requests[ip], now) = <<>>

\* the age of the newest timestamp of a non-empty entry
IdadeDaEntrada(ip) == now - rl.requests[ip][Len(rl.requests[ip])]

\* C30: once the sweep task is running, an entry whose timestamps are all
\* older than 60 seconds is eventually deleted, unless its IP sends a new
\* request first; and it does not outlive one sweep interval (it is never
\* seen more than cleanup_interval after it went stale).
C30_EntradaVelhaRemovida ==
    /\ \A ip \in ClientIPs : Velha(ip) ~> ~Velha(ip)
    /\ [](\A ip \in ClientIPs :
             (Velha(ip) /\ rl.requests[ip] # <<>>) =>
                 IdadeDaEntrada(ip) <= JanelaSegundos + cleanup_interval)

\* an entry that went stale and is waiting for the next round of the sweep
C30_Witness ==
    \E ip \in ClientIPs :
        /\ Velha(ip) /\ rl.requests[ip] # <<>>
        /\ now < rl.wake
        /\ rlLog.ultimo.ip # ip

----------------------------------------------------------------------------
(* The states and transitions of the circuit breaker *)

\* C31: in every reachable state the breaker is CLOSED only with
\* failures < max_failures, and OPEN or HALF_OPEN only with
\* failures >= max_failures and a recorded last-failure time.
C31_EstadoCoerente ==
    /\ cb.state \in {"CLOSED", "OPEN", "HALF_OPEN"}
    /\ cb.state = "CLOSED" => cb.failures < max_failures
    /\ cb.state \in {"OPEN", "HALF_OPEN"} =>
           (cb.failures >= max_failures /\ cb.last_failure_time # None)

\* a load is making its trial call: the breaker is HALF_OPEN
C31_Witness ==
    /\ cb.state = "HALF_OPEN" /\ cb.failures >= max_failures
    /\ ld.kind = "load" /\ ld.pc = "attempt"

FalhaRegistrada == cb'.failures = cb.failures + 1
SucessoRegistrado == cb'.failures = 0 /\ cb'.last_failure_time = None

\* C32: the breaker only goes CLOSED -> OPEN on the failure that reaches
\* max_failures, OPEN -> HALF_OPEN when is_open() is called after the
\* timeout, HALF_OPEN -> OPEN on a recorded failure (which restarts the
\* timeout) and from any state to CLOSED on a recorded success; a recorded
\* failure never leaves it HALF_OPEN and never moves it to CLOSED.
C32_SoTransicoesPrevistas ==
    [][/\ cb'.state # cb.state =>
           \/ /\ cb.state = "CLOSED" /\ cb'.state = "OPEN"
              /\ FalhaRegistrada /\ cb'.failures = max_failures
           \/ /\ cb.state = "OPEN" /\ cb'.state = "HALF_OPEN"
              /\ now - cb.last_failure_time >= timeout_seconds
              /\ cb'.failures = cb.failures
              /\ cb'.last_failure_time = cb.last_failure_time
           \/ /\ cb.state = "HALF_OPEN" /\ cb'.state = "OPEN"
              /\ FalhaRegistrada /\ cb'.last_failure_time = now
           \/ /\ cb'.state = "CLOSED" /\ SucessoRegistrado
       /\ FalhaRegistrada =>
           /\ cb'.state # "HALF_OPEN"
           /\ cb'.state = "CLOSED" => cb.state = "CLOSED"]_vars

\* the trial call of a HALF_OPEN breaker failed: OPEN again, one failure
\* more than max_failures, the timeout restarted
C32_Witness ==
    /\ cb.state = "OPEN" /\ cb.failures = max_failures + 1
    /\ cb.last_failure_time = now
    /\ ld.kind = "load" /\ ld.fails = 1

----------------------------------------------------------------------------
(* The cache after a successful fetch *)

\* the step in which load() returns the series it fetched from the provider
CarregouDaApi ==
    /\ ld.pc = "attempt" /\ ld'.pc = "done"
    /\ ld'.kind = "load" /\ ld'.result.src = "api"

\* C33: after load() fetched the series from the provider successfully,
\* needs_refresh() is false, so an immediately following load() without
\* force is served from the cache without a provider call.
C33_CacheAtualizadoAposApi ==
    [][CarregouDaApi =>
           /\ ~verificar_atualizacao_necessaria(cache', now')
           /\ UsaCacheAtualizado(cache', FALSE, now')]_vars

----------------------------------------------------------------------------
(* The parcial events of one stream *)

Parciais == {i \in DOMAIN orq.eventos : orq.eventos[i].status = "parcial"}

\* C34: within one streaming query no two parcial events carry the same
\* ano_processado (so no year bucket, and none of its records, is included
\* in more than one parcial event), even when the backend repeats a year
\* across successive polls or lists it under both dados_por_ano and
\* dados_parciais_por_ano.
C34_AnoUmaVez ==
    \A i \in Parciais : \A j \in Parciais :
        i # j => orq.eventos[i].ano # orq.eventos[j].ano

\* the years with records that a status answer lists under key k
AnosComDados(r, k) ==
    {DictDaChave(r, k)[i].ano :
        i \in {n \in DOMAIN DictDaChave(r, k) : DadosAssincrono(DictDaChave(r, k)[n]) # <<>>}}

\* both loops over a concluded answer are done; the answer listed a year
\* under both keys, and that year had already been processed by an earlier
\* poll
C34_Witness ==
    /\ orq.modo = "assincrono" /\ orq.pc = "finais" /\ orq.chave > 2
    /\ \E y \in AnosComDados(orq.resp, 1) \cap AnosComDados(orq.resp, 2) :
          /\ y \in orq.anos_ja_processados
          /\ \E i \in Parciais : orq.eventos[i].ano = y /\ i < Len(orq.eventos)

----------------------------------------------------------------------------
(* The totals of the completo event *)

\* the sum of field campo over the parcial events among the first i events
RECURSIVE SomaParciais(_, _)
SomaParciais(campo, i) ==
    IF i = 0 THEN 0
    ELSE SomaParciais(campo, i - 1)
         + (IF orq.eventos[i].status = "parcial" THEN orq.eventos[i][campo] ELSE 0)

\* the year bucket the generator is at
BucketAtual ==
    IF orq.pc = "sync" THEN orq.resp.dpa[orq.idx]
    ELSE IF orq.pc = "anos" THEN DadosPorAnoDoStatus(orq.resp)[orq.idx]
    ELSE DictDaChave(orq.resp, orq.chave)[orq.idx]

\* the step yields a parcial event
EmiteParcial ==
    /\ Len(orq'.eventos) = Len(orq.eventos) + 1
    /\ orq'.eventos[Len(orq'.eventos)].status = "parcial"

\* C35: in every stream that ends with completo, total_registros is the sum
\* of total_registros_ano over the parcial events and total_nao_processados
\* the sum of total_nao_processados_ano; and every parcial event accounts
\* for each scraped record of its year bucket once, as corrected or as not
\* processed, so the two totals add up to the records of the processed
\* buckets.
C35_TotaisDoCompleto ==
    /\ [](  (orq.eventos # <<>> /\ UltimoEvento.status = "completo") =>
               /\ UltimoEvento.n = SomaParciais("n", Len(orq.eventos))
               /\ UltimoEvento.nao = SomaParciais("nao", Len(orq.eventos))
               /\ UltimoEvento.n = Len(orq.todos_dados)
               /\ UltimoEvento.nao = Len(orq.nao_processados))
    /\ [][EmiteParcial =>
             /\ orq'.eventos[Len(orq'.eventos)].ano = BucketAtual.ano
             /\ orq'.eventos[Len(orq'.eventos)].n + orq'.eventos[Len(orq'.eventos)].nao
                    = Len(BucketAtual.dados)]_vars

\* a stream of two years that ended with completo, with corrected and
\* unprocessed records
C35_Witness ==
    /\ orq.pc = "done" /\ orq.eventos # <<>>
    /\ UltimoEvento.status = "completo"
    /\ Cardinality(Parciais) = 2
    /\ UltimoEvento.n >= 2 /\ UltimoEvento.nao >= 1

----------------------------------------------------------------------------
(* The year groups of the completo event *)

\* the sum of total_registros over a set of year groups
RECURSIVE TotalDosGrupos(_)
TotalDosGrupos(grupos) ==
    IF grupos = {} THEN 0
    ELSE LET g == CHOOSE x \in grupos : TRUE
         IN  g.total_registros + TotalDosGrupos(grupos \ {g})

\* the last event is a completo that aggregates corrected records
CompletoComCorrigidos ==
    orq.eventos # <<>> /\ UltimoEvento.status = "completo" /\ UltimoEvento.n > 0

\* C36: every completo event that aggregates corrected records carries
\* dados_por_ano, the total_registros of its year groups sum to the event's
\* total_registros, and the records corrected for a year bucket are listed
\* under that year: the group of every year with a parcial event that
\* corrected records holds as many records as that parcial event counted.
C36_GruposDoCompleto ==
    CompletoComCorrigidos =>
        /\ UltimoEvento.dados_por_ano.presente
        /\ TotalDosGrupos(UltimoEvento.dados_por_ano.grupos) = UltimoEvento.n
        /\ \A i \in Parciais :
              orq.eventos[i].n > 0 =>
                 \E g \in UltimoEvento.dados_por_ano.grupos :
                    g.ano = orq.eventos[i].ano /\ g.total_registros = orq.eventos[i].n

\* a concluded stream whose completo event carries dados_por_ano although a
\* record corrected for the year bucket 2021 names no year itself
C36_SemAnoNoRegistro ==
    /\ CompletoComCorrigidos /\ UltimoEvento.dados_por_ano.presente
    /\ \E i \in Parciais : orq.eventos[i].ano = 2021 /\ orq.eventos[i].n > 0
    /\ \A g \in UltimoEvento.dados_por_ano.grupos : g.ano # 2021

\* a stream that ended on the timeout with data collected
C36_CompletoDoTimeout == CompletoComCorrigidos /\ UltimoEvento.obs

----------------------------------------------------------------------------
(* Rejected requests and the limiter's timestamps *)

\* the step is a call of check_rate_limit
ChamadaDoLimiter == rlLog'.n = rlLog.n + 1

\* C37: a request rejected with 429 leaves every recorded timestamp as it
\* was, and a request of a client with fewer than requests_per_minute
\* accepted requests in the last 60 seconds is accepted, whatever was
\* rejected before it.
C37_RejeicaoNaoRegistra ==
    [][ChamadaDoLimiter =>
          /\ rlLog'.ultimo.status = 429 =>
                /\ \A ip \in ClientIPs : Lista(rl'.requests, ip) = Lista(rl.requests, ip)
                /\ rlLog'.aceitos = rlLog.aceitos
          /\ Len(Recentes(rlLog.aceitos[rlLog'.ultimo.ip], now)) < requests_per_minute
                => rlLog'.ultimo.status = 200]_vars

\* a client whose last request was rejected 59 seconds after it had used
\* its quota: the list still holds exactly the accepted timestamps
C37_Witness ==
    /\ rlLog.ultimo.status = 429
    /\ rlLog.ultimo.t = now
    /\ Lista(rl.requests, rlLog.ultimo.ip) = rlLog.aceitos[rlLog.ultimo.ip]
    /\ Len(rlLog.aceitos[rlLog.ultimo.ip]) = requests_per_minute
    /\ now - rlLog.aceitos[rlLog.ultimo.ip][1] = JanelaSegundos - 1

----------------------------------------------------------------------------
(* The records given to the correction *)

\* the identities of the records of the argument
ObjetosDeEntrada == 1..Len(cor.dados)

\* C38: when processar_correcao_dados has returned, every record of its
\* argument has the field values it had before the call, every
\* item_original is one of those records, and the corrected values and the
\* _correcao_aplicada key are on other objects, which carry the fields of
\* the record they were copied from.
C38_EntradaIntacta ==
    cor.pc = "retornou" =>
        /\ \A i \in ObjetosDeEntrada : cor.heap[i] = Objeto(cor.dados[i])
        /\ \A k \in DOMAIN cor.objetos_nao :
              /\ cor.objetos_nao[k].item_original \in ObjetosDeEntrada
              /\ cor.heap[cor.objetos_nao[k].item_original].campos = cor.nao[k].item_original
        /\ \A k \in DOMAIN cor.objetos_corrigidos :
              /\ cor.objetos_corrigidos[k] \notin ObjetosDeEntrada
              /\ cor.heap[cor.objetos_corrigidos[k]].valores_corrigidos
              /\ cor.heap[cor.objetos_corrigidos[k]].correcao_aplicada
              /\ cor.heap[cor.objetos_corrigidos[k]].campos = cor.corrigidos[k]

\* a call that corrected one record and gave up another
C38_Witness ==
    /\ cor.pc = "retornou"
    /\ cor.objetos_corrigidos # <<>> /\ cor.objetos_nao # <<>>
    /\ Len(cor.heap) = 2 * Len(cor.dados)

====
